---------------------------- MODULE Spec2Model ----------------------------
(***************************************************************************)
(* A model of the ytsum video segmentation and transcript alignment core:  *)
(* timestamp conversion, the WebVTT caption parser, the frame difference   *)
(* extractor, the scene detectors, the scene detection evaluator and the   *)
(* subtitle/frame aligner.                                                 *)
(*                                                                         *)
(* Strings the code splits or parses are sequences of one-character        *)
(* strings.  Times the decoder reports as floating point milliseconds are  *)
(* integers in microseconds, so that the truncation done when a time is    *)
(* formatted is visible.  Each component has one record variable; a        *)
(* component that a specification does not run stays at Off.               *)
(***************************************************************************)
EXTENDS Integers, Sequences, FiniteSets, TLC

VARIABLES conv, parser, evaluator, ssim, adaptive, extractor, aligner,
          workflow, enhancer, llm

vars == <<conv, parser, evaluator, ssim, adaptive, extractor, aligner,
          workflow, enhancer, llm>>

Off == [pc |-> "off"]

\* The one element of a singleton set.  { F(x) : x \in {e} } computes e once
\* and names it x, as an assignment to a local variable does.
Only(S) == CHOOSE r \in S : TRUE

(***************************************************************************)
(* Characters, digits and Python's int()/str.replace()/str.split().        *)
(***************************************************************************)
Digits == <<"0", "1", "2", "3", "4", "5", "6", "7", "8", "9">>

DigitChar(d) == Digits[d + 1]

IsDigit(c) == \E d \in 0..9 : Digits[d + 1] = c

DigitVal(c) == CHOOSE d \in 0..9 : Digits[d + 1] = c

\* f"{n:02d}" and f"{n:03d}" and f"{n:04d}": at least that many digits.
RECURSIVE DecimalDigits(_)
DecimalDigits(n) ==
    IF n < 10 THEN <<DigitChar(n)>>
    ELSE Append(DecimalDigits(n \div 10), DigitChar(n % 10))

RECURSIVE ZeroPad(_, _)
ZeroPad(s, width) == IF Len(s) >= width THEN s ELSE ZeroPad(<<"0">> \o s, width)

Pad(n, width) == ZeroPad(DecimalDigits(n), width)

\* int(s) for a string of decimal digits; anything else raises ValueError.
IntOk(s) == Len(s) > 0 /\ \A i \in 1..Len(s) : IsDigit(s[i])

RECURSIVE PyInt(_)
PyInt(s) ==
    IF Len(s) = 0 THEN 0
    ELSE 10 * PyInt(SubSeq(s, 1, Len(s) - 1)) + DigitVal(s[Len(s)])

\* s.replace(old, new) for single characters.
StrReplace(s, old, new) == [i \in 1..Len(s) |-> IF s[i] = old THEN new ELSE s[i]]

\* s.split(sep) for a single-character separator: always at least one part.
\* The parts lie between consecutive separator positions.
StrSplit(s, sep) ==
    LET cuts == {0, Len(s) + 1} \cup {i \in 1..Len(s) : s[i] = sep}
        NextCut(i) == CHOOSE j \in cuts : j > i /\ \A k \in cuts : k > i => j <= k
        RECURSIVE PartsFrom(_)
        PartsFrom(i) ==
            IF i > Len(s) THEN <<>>
            ELSE Only({ <<SubSeq(s, i + 1, j - 1)>> \o PartsFrom(j) : j \in {NextCut(i)} })
    IN  PartsFrom(0)

(***************************************************************************)
(* utils.convert_timestamp_to_ms (alignment.py holds an identical copy).   *)
(***************************************************************************)
MsPerHour == 3600000
MsPerMinute == 60000
MsPerSecond == 1000

Raised == [raised |-> TRUE, value |-> 0]

Returned(v) == [raised |-> FALSE, value |-> v]

\* Only the "." separator is rewritten: "HH_MM_SS_mmm" stays one field.
NormalizeSeparatorsDotOnly(timestamp) == StrReplace(timestamp, ".", ":")

\* timestamp.replace(".", ":").replace("_", ":")
NormalizeSeparators(timestamp) ==
    StrReplace(StrReplace(timestamp, ".", ":"), "_", ":")

\* h, m, s, ms = parts raises unless there are exactly 4 parts; int() raises
\* on a part that is not a number.
convert_timestamp_to_ms(timestamp) ==
    LET parts == StrSplit(NormalizeSeparators(timestamp), ":")
    IN  IF Len(parts) # 4 \/ \E i \in 1..4 : ~IntOk(parts[i])
        THEN Raised
        ELSE Returned(PyInt(parts[1]) * MsPerHour + PyInt(parts[2]) * MsPerMinute
                      + PyInt(parts[3]) * MsPerSecond + PyInt(parts[4]))

\* The three spellings of a time of day the code writes or reads.
Separators == [dot        |-> <<":", ":", ".">>,
               colon      |-> <<":", ":", ":">>,
               underscore |-> <<"_", "_", "_">>]

FormatFields(h, m, s, ms, style) ==
    Pad(h, 2) \o <<Separators[style][1]>> \o Pad(m, 2) \o <<Separators[style][2]>>
    \o Pad(s, 2) \o <<Separators[style][3]>> \o Pad(ms, 3)

Styles == {"dot", "colon", "underscore"}

ConvHours == {0, 1, 12}
ConvMinutes == {0, 2, 59}
ConvSeconds == {0, 3, 59}
ConvMillis == {0, 456, 999}

\* A caller hands one timestamp to convert_timestamp_to_ms; besides the three
\* formats, a string with a field missing.
ConvInit ==
    /\ conv = [pc |-> "idle"]
    /\ parser = Off /\ evaluator = Off /\ ssim = Off /\ adaptive = Off
    /\ extractor = Off /\ aligner = Off
    /\ workflow = Off /\ enhancer = Off /\ llm = Off

ConvertTimestamp ==
    /\ conv.pc = "idle"
    /\ \E h \in ConvHours, m \in ConvMinutes, s \in ConvSeconds, ms \in ConvMillis,
          style \in Styles :
          LET timestamp == FormatFields(h, m, s, ms, style)
          IN  conv' = [pc |-> "done", fields |-> <<h, m, s, ms>>, style |-> style,
                       timestamp |-> timestamp,
                       result |-> convert_timestamp_to_ms(timestamp)]
    /\ UNCHANGED <<parser, evaluator, ssim, adaptive, extractor, aligner,
                 workflow, enhancer, llm>>

ConvertMalformed ==
    /\ conv.pc = "idle"
    /\ \E h \in ConvHours, m \in ConvMinutes, s \in ConvSeconds :
          LET timestamp == Pad(h, 2) \o <<":">> \o Pad(m, 2) \o <<":">> \o Pad(s, 2)
          IN  conv' = [pc |-> "done", fields |-> <<h, m, s>>, style |-> "malformed",
                       timestamp |-> timestamp,
                       result |-> convert_timestamp_to_ms(timestamp)]
    /\ UNCHANGED <<parser, evaluator, ssim, adaptive, extractor, aligner,
                 workflow, enhancer, llm>>

ConvNext == ConvertTimestamp \/ ConvertMalformed

SpecConv == ConvInit /\ [][ConvNext]_vars

\* C5: convert_timestamp_to_ms accepts HH:MM:SS.mmm, HH:MM:SS:mmm and
\* HH_MM_SS_mmm and returns h*3600000 + m*60000 + s*1000 + ms for each, so the
\* same four fields give the same result in all three formats; "01:02:03.456",
\* "01:02:03:456" and "01_02_03_456" all convert to 3723456.
C5_ThreeFormats ==
    (conv.pc = "done" /\ conv.style \in Styles) =>
        /\ ~conv.result.raised
        /\ conv.result.value = conv.fields[1] * 3600000 + conv.fields[2] * 60000
                               + conv.fields[3] * 1000 + conv.fields[4]
        /\ (conv.timestamp \in
              { <<"0","1",":","0","2",":","0","3",".","4","5","6">>,
                <<"0","1",":","0","2",":","0","3",":","4","5","6">>,
                <<"0","1","_","0","2","_","0","3","_","4","5","6">> }
            => conv.result.value = 3723456)

C5_Witness ==
    /\ conv.pc = "done"
    /\ conv.timestamp = <<"0","1","_","0","2","_","0","3","_","4","5","6">>
    /\ conv.result = Returned(3723456)

(***************************************************************************)
(* Exact fractions <<numerator, denominator>> for the evaluator's metrics  *)
(* (Python floats there; every value is a ratio of small counts).          *)
(***************************************************************************)
RECURSIVE GCD(_, _)
GCD(a, b) == IF b = 0 THEN a ELSE GCD(b, a % b)

Frac(n, d) == LET g == GCD(n, d) IN <<n \div g, d \div g>>

FracZero == <<0, 1>>

\* The value Python's "/" cannot produce: ZeroDivisionError.
ZeroDivision == <<0, 0>>

FracIsZeroDivision(a) == a[2] = 0

FracDiv(a, b) ==
    IF FracIsZeroDivision(a) \/ FracIsZeroDivision(b) \/ b[1] = 0 THEN ZeroDivision
    ELSE Frac(a[1] * b[2], a[2] * b[1])

FracMul(a, b) ==
    IF FracIsZeroDivision(a) \/ FracIsZeroDivision(b) THEN ZeroDivision
    ELSE Frac(a[1] * b[1], a[2] * b[2])

FracAdd(a, b) ==
    IF FracIsZeroDivision(a) \/ FracIsZeroDivision(b) THEN ZeroDivision
    ELSE Frac(a[1] * b[2] + b[1] * a[2], a[2] * b[2])

FracInt(n) == <<n, 1>>

FracPositive(a) == ~FracIsZeroDivision(a) /\ a[1] > 0

(***************************************************************************)
(* scene_detection/eval.py: parse_time, time_difference_seconds,           *)
(* SceneDetectionEvaluator (tools/detect_scenes.py run_eval is a copy).    *)
(***************************************************************************)
UsPerMs == 1000

\* "%f": one to six digits, read as a decimal fraction of a second.
RECURSIVE FractionToMicros(_, _)
FractionToMicros(digits, width) ==
    IF Len(digits) >= width THEN PyInt(digits)
    ELSE FractionToMicros(Append(digits, "0"), width)

StrptimeFieldOk(s, maxDigits, maxValue) ==
    IntOk(s) /\ Len(s) <= maxDigits /\ PyInt(s) <= maxValue

\* "%H:%M:%S.%f" applied to the three ":"-separated parts and the two
\* "."-separated parts of the last of them.
StrptimeFields(parts, secs) ==
    IF /\ StrptimeFieldOk(parts[1], 2, 23)
       /\ StrptimeFieldOk(parts[2], 2, 59)
       /\ StrptimeFieldOk(secs[1], 2, 61)
       /\ IntOk(secs[2]) /\ Len(secs[2]) <= 6
    THEN Returned((PyInt(parts[1]) * MsPerHour + PyInt(parts[2]) * MsPerMinute
                   + PyInt(secs[1]) * MsPerSecond) * UsPerMs
                  + FractionToMicros(secs[2], 6))
    ELSE Raised

\* ValueError(f"Invalid time format: {time_str}. Expected format: HH:MM:SS.mmm")
InvalidTimeFormat(time_str) ==
    [raised |-> TRUE, value |-> 0, offender |-> time_str,
     expected |-> "HH:MM:SS.mmm"]

\* datetime.strptime(time_str, "%H:%M:%S.%f") as microseconds since midnight
\* (every result is on 1900-01-01); ValueError otherwise.
parse_time(time_str) ==
    Only({ IF Len(parts) # 3 THEN InvalidTimeFormat(time_str)
           ELSE Only({ IF Len(secs) # 2 THEN InvalidTimeFormat(time_str)
                       ELSE Only({ IF t.raised THEN InvalidTimeFormat(time_str) ELSE t :
                                   t \in {StrptimeFields(parts, secs)} }) :
                       secs \in {StrSplit(parts[3], ".")} }) :
           parts \in {StrSplit(time_str, ":")} })

Abs(x) == IF x < 0 THEN 0 - x ELSE x

\* abs((t2 - t1).total_seconds()), in microseconds.
time_difference_seconds(time1, time2) ==
    Only({ IF t1.raised THEN t1
           ELSE IF t2.raised THEN t2
           ELSE Returned(Abs(t2.value - t1.value)) :
           t1 \in {parse_time(time1)}, t2 \in {parse_time(time2)} })

\* The comparison with the bound excluded.
IsSceneMatchStrict(annotated_scene, detected_scene, tolerance_ms) ==
    Only({ IF start_diff.raised THEN start_diff
           ELSE IF end_diff.raised THEN end_diff
           ELSE Returned(start_diff.value < tolerance_ms * UsPerMs
                         /\ end_diff.value < tolerance_ms * UsPerMs) :
           start_diff \in {time_difference_seconds(annotated_scene.start_time,
                                                   detected_scene.start_time)},
           end_diff \in {time_difference_seconds(annotated_scene.end_time,
                                                 detected_scene.end_time)} })

\* _is_scene_match.  The tolerance is a float of seconds in the code and a
\* whole number of milliseconds here; both differences are whole microseconds,
\* for which the float comparison is the exact one.
IsSceneMatch(annotated_scene, detected_scene, tolerance_ms) ==
    Only({ IF start_diff.raised THEN start_diff
           ELSE IF end_diff.raised THEN end_diff
           ELSE Returned(start_diff.value <= tolerance_ms * UsPerMs
                         /\ end_diff.value <= tolerance_ms * UsPerMs) :
           start_diff \in {time_difference_seconds(annotated_scene.start_time,
                                                   detected_scene.start_time)},
           end_diff \in {time_difference_seconds(annotated_scene.end_time,
                                                 detected_scene.end_time)} })

\* The inner loop without the break: every detected scene is compared.
RECURSIVE ScanDetectedNoBreak(_, _, _, _)
ScanDetectedNoBreak(annotated_scene, scenes, j, tolerance_ms) ==
    IF j > Len(scenes) THEN [matched |-> FALSE, compared |-> 0, raised |-> FALSE]
    ELSE Only({
           IF m.raised THEN [matched |-> FALSE, compared |-> 1, raised |-> TRUE,
                             offender |-> m.offender, expected |-> m.expected]
           ELSE Only({ IF rest.raised THEN [rest EXCEPT !.compared = @ + 1]
                       ELSE [rest EXCEPT !.compared = @ + 1,
                                         !.matched = @ \/ m.value] :
                       rest \in {ScanDetectedNoBreak(annotated_scene, scenes, j + 1,
                                                     tolerance_ms)} }) :
           m \in {IsSceneMatch(annotated_scene, scenes[j], tolerance_ms)} })

\* The inner loop over result.scenes from position j: whether it broke out on a
\* match, how many scenes it compared, whether a comparison raised.
RECURSIVE ScanDetected(_, _, _, _)
ScanDetected(annotated_scene, scenes, j, tolerance_ms) ==
    IF j > Len(scenes) THEN [matched |-> FALSE, compared |-> 0, raised |-> FALSE]
    ELSE Only({
           IF m.raised THEN [matched |-> FALSE, compared |-> 1, raised |-> TRUE,
                             offender |-> m.offender, expected |-> m.expected]
           ELSE IF m.value THEN [matched |-> TRUE, compared |-> 1, raised |-> FALSE]
           ELSE Only({ [rest EXCEPT !.compared = @ + 1] :
                       rest \in {ScanDetected(annotated_scene, scenes, j + 1,
                                              tolerance_ms)} }) :
           m \in {IsSceneMatch(annotated_scene, scenes[j], tolerance_ms)} })

\* The outer loop that takes a matched detected scene out of the list the
\* later annotated scenes are compared with.
RECURSIVE MatchLoopConsuming(_, _, _, _)
MatchLoopConsuming(annotated, detected, i, tolerance_ms) ==
    IF i > Len(annotated) THEN [correct_count |-> 0, compared |-> 0, raised |-> FALSE]
    ELSE Only({
           IF scan.raised
           THEN [correct_count |-> 0, compared |-> scan.compared, raised |-> TRUE,
                 offender |-> scan.offender, expected |-> scan.expected]
           ELSE Only({ IF rest.raised
                       THEN [rest EXCEPT !.compared = @ + scan.compared]
                       ELSE [correct_count |-> rest.correct_count
                                               + (IF scan.matched THEN 1 ELSE 0),
                             compared |-> rest.compared + scan.compared,
                             raised |-> FALSE] :
                       rest \in {MatchLoopConsuming(
                                   annotated,
                                   IF scan.matched
                                   THEN SubSeq(detected, 1, scan.compared - 1)
                                          \o SubSeq(detected, scan.compared + 1,
                                                    Len(detected))
                                   ELSE detected,
                                   i + 1, tolerance_ms)} }) :
           scan \in {ScanDetected(annotated[i], detected, 1, tolerance_ms)} })

\* The outer loop over annotation.scenes from position i.
RECURSIVE MatchLoop(_, _, _, _)
MatchLoop(annotated, detected, i, tolerance_ms) ==
    IF i > Len(annotated) THEN [correct_count |-> 0, compared |-> 0, raised |-> FALSE]
    ELSE Only({
           IF scan.raised
           THEN [correct_count |-> 0, compared |-> scan.compared, raised |-> TRUE,
                 offender |-> scan.offender, expected |-> scan.expected]
           ELSE Only({ IF rest.raised
                       THEN [rest EXCEPT !.compared = @ + scan.compared]
                       ELSE [correct_count |-> rest.correct_count
                                               + (IF scan.matched THEN 1 ELSE 0),
                             compared |-> rest.compared + scan.compared,
                             raised |-> FALSE] :
                       rest \in {MatchLoop(annotated, detected, i + 1, tolerance_ms)} }) :
           scan \in {ScanDetected(annotated[i], detected, 1, tolerance_ms)} })

\* pathlib.Path(s): the parts of a relative POSIX path; empty and "." segments
\* are dropped, ".." is kept.
PathParts(raw) == SelectSeq(raw, LAMBDA seg : seg \notin {"", "."})

\* The two path strings compared as written.
SamePathRaw(a, b) == a = b

\* Path(a) == Path(b)
SamePath(a, b) == PathParts(a) = PathParts(b)

\* With the division unguarded.
PrecisionUnguarded(correct_count, detected_count) ==
    FracDiv(FracInt(correct_count), FracInt(detected_count))

Accuracy(correct_count, total_scenes) ==
    IF total_scenes > 0
    THEN FracMul(FracDiv(FracInt(correct_count), FracInt(total_scenes)), FracInt(100))
    ELSE FracZero

Precision(correct_count, detected_count) ==
    IF detected_count > 0
    THEN FracDiv(FracInt(correct_count), FracInt(detected_count))
    ELSE FracZero

Recall(correct_count, total_scenes) ==
    IF total_scenes > 0
    THEN FracDiv(FracInt(correct_count), FracInt(total_scenes))
    ELSE FracZero

F1Score(precision, recall) ==
    IF FracPositive(FracAdd(precision, recall))
    THEN FracDiv(FracMul(FracInt(2), FracMul(precision, recall)),
                 FracAdd(precision, recall))
    ELSE FracZero

\* The metrics of SceneDetectionEvaluator.run, from the loop's count.
EvaluatorMetrics(correct_count, total_scenes, detected_count) ==
    Only({ [accuracy |-> Accuracy(correct_count, total_scenes),
            precision |-> precision,
            recall |-> recall,
            f1_score |-> F1Score(precision, recall)] :
           precision \in {Precision(correct_count, detected_count)},
           recall \in {Recall(correct_count, total_scenes)} })

\* SceneDetectionEvaluator.run
EvaluatorRun(annotation, result, tolerance_ms) ==
    LET inputs == [annotation |-> annotation, result |-> result,
                   tolerance_ms |-> tolerance_ms]
    IN
    IF ~SamePath(annotation.video_file_path, result.video_file_path)
    THEN [pc |-> "raised", error |-> "paths do not match", compared |-> 0] @@ inputs
    ELSE Only({
           IF loop.raised
           THEN [pc |-> "raised", error |-> "invalid time format",
                 offender |-> loop.offender, expected |-> loop.expected,
                 compared |-> loop.compared] @@ inputs
           ELSE Only({
                  IF \E name \in DOMAIN metrics : FracIsZeroDivision(metrics[name])
                  THEN [pc |-> "raised", error |-> "division by zero",
                        compared |-> loop.compared] @@ inputs
                  ELSE [pc |-> "returned", compared |-> loop.compared,
                        correct_count |-> loop.correct_count,
                        evaluation |-> [video_file_path |-> annotation.video_file_path]
                                       @@ metrics] @@ inputs :
                  metrics \in {EvaluatorMetrics(loop.correct_count,
                                                Len(annotation.scenes),
                                                Len(result.scenes))} }) :
           loop \in {MatchLoop(annotation.scenes, result.scenes, 1, tolerance_ms)} })

\* Inputs of the evaluator.
MaxAnnotated == 2
MaxDetected == 2

EvalClockMs == {1000, 1400, 3000, 3400}

FormatMs(ms, style) ==
    FormatFields(ms \div MsPerHour, (ms % MsPerHour) \div MsPerMinute,
                 (ms % MsPerMinute) \div MsPerSecond, ms % MsPerSecond, style)

EvalSpans == {<<1000, 3000>>, <<1400, 3400>>, <<1000, 1400>>, <<3000, 3400>>}

EvalScenes ==
    { [start_time |-> FormatMs(p[1], "dot"), end_time |-> FormatMs(p[2], "dot")] :
        p \in EvalSpans }

SeqsUpTo(S, n) == UNION {[1..k -> S] : k \in 0..n}

EvalTolerancesMs == {100, 400, 500}

EvalPathSpellings ==
    { <<"videos", "a.mp4">>, <<"videos", "", "a.mp4">>, <<".", "videos", "a.mp4">>,
      <<"videos", "..", "videos", "a.mp4">>, <<"videos", "b.mp4">> }

\* Every pair of spellings with at most one scene on each side, and every pair
\* of scene lists under one spelling.
EvalInputs ==
    { [annotation |-> [video_file_path |-> pa, scenes |-> sa],
       result     |-> [video_file_path |-> pr, scenes |-> sr]] :
        pa \in EvalPathSpellings, pr \in EvalPathSpellings,
        sa \in SeqsUpTo(EvalScenes, 1), sr \in SeqsUpTo(EvalScenes, 1) }
    \cup
    { [annotation |-> [video_file_path |-> <<"videos", "a.mp4">>, scenes |-> sa],
       result     |-> [video_file_path |-> <<"videos", "a.mp4">>, scenes |-> sr]] :
        sa \in SeqsUpTo(EvalScenes, MaxAnnotated),
        sr \in SeqsUpTo(EvalScenes, MaxDetected) }

EvalInit ==
    /\ evaluator = [pc |-> "idle"]
    /\ conv = Off /\ parser = Off /\ ssim = Off /\ adaptive = Off
    /\ extractor = Off /\ aligner = Off
    /\ workflow = Off /\ enhancer = Off /\ llm = Off

Evaluate ==
    /\ evaluator.pc = "idle"
    /\ \E in \in EvalInputs, tolerance_ms \in EvalTolerancesMs :
          evaluator' = EvaluatorRun(in.annotation, in.result, tolerance_ms)
    /\ UNCHANGED <<conv, parser, ssim, adaptive, extractor, aligner,
                 workflow, enhancer, llm>>

EvalNext == Evaluate

SpecEval == EvalInit /\ [][EvalNext]_vars

\* What the time strings of the evaluator's inputs stand for, read off the
\* clock values they were written from (not through parse_time).
EvalMsOf(time_str) == CHOOSE ms \in EvalClockMs : FormatMs(ms, "dot") = time_str

EvalWithin(annotated_scene, detected_scene, tolerance_ms) ==
    /\ Abs(EvalMsOf(annotated_scene.start_time) - EvalMsOf(detected_scene.start_time))
         <= tolerance_ms
    /\ Abs(EvalMsOf(annotated_scene.end_time) - EvalMsOf(detected_scene.end_time))
         <= tolerance_ms

EvalMatchedSet ==
    { i \in 1..Len(evaluator.annotation.scenes) :
        \E j \in 1..Len(evaluator.result.scenes) :
            EvalWithin(evaluator.annotation.scenes[i], evaluator.result.scenes[j],
                       evaluator.tolerance_ms) }

EvalExampleAnnotation ==
    <<[start_time |-> <<"0","0",":","0","0",":","0","1",".","0","0","0">>,
       end_time   |-> <<"0","0",":","0","0",":","0","3",".","0","0","0">>]>>

EvalExampleDetection ==
    <<[start_time |-> <<"0","0",":","0","0",":","0","1",".","4","0","0">>,
       end_time   |-> <<"0","0",":","0","0",":","0","3",".","4","0","0">>]>>

EvalIsExample ==
    /\ evaluator.annotation.scenes = EvalExampleAnnotation
    /\ evaluator.result.scenes = EvalExampleDetection

\* C3: a detected scene matches an annotated scene iff both its start and its
\* end lie within tolerance_secs of the annotated ones, bounds included: the
\* annotated scenes counted are exactly those with such a detected scene.  For
\* annotation [(00:00:01.000, 00:00:03.000)] and detection [(00:00:01.400,
\* 00:00:03.400)], tolerance 0.5 gives accuracy 100, precision 1, recall 1,
\* f1 1, and tolerance 0.1 gives 0 for all four.
C3_ToleranceMatch ==
    evaluator.pc = "returned" =>
        /\ evaluator.correct_count = Cardinality(EvalMatchedSet)
        /\ (EvalIsExample /\ evaluator.tolerance_ms = 500 =>
              /\ evaluator.evaluation.accuracy = <<100, 1>>
              /\ evaluator.evaluation.precision = <<1, 1>>
              /\ evaluator.evaluation.recall = <<1, 1>>
              /\ evaluator.evaluation.f1_score = <<1, 1>>)
        /\ (EvalIsExample /\ evaluator.tolerance_ms = 100 =>
              /\ evaluator.evaluation.accuracy = <<0, 1>>
              /\ evaluator.evaluation.precision = <<0, 1>>
              /\ evaluator.evaluation.recall = <<0, 1>>
              /\ evaluator.evaluation.f1_score = <<0, 1>>)

\* The example at a tolerance equal to the difference (0.4 s): a match.
C3_Witness ==
    /\ evaluator.pc = "returned"
    /\ EvalIsExample
    /\ evaluator.tolerance_ms = 400
    /\ evaluator.correct_count = 1

\* C4: accuracy = matched/|annotated|*100 (0 without annotated scenes),
\* precision = matched/|detected| (0 without detected scenes), recall =
\* matched/|annotated| (0 without annotated scenes), f1 = 2*precision*recall /
\* (precision + recall) (0 when both are 0), matched being the number of
\* annotated scenes that found a match; nothing divides by zero.
C4_Metrics ==
    /\ ~(evaluator.pc = "raised" /\ evaluator.error = "division by zero")
    /\ evaluator.pc = "returned" =>
        LET matched   == evaluator.correct_count
            annotated == Len(evaluator.annotation.scenes)
            detected  == Len(evaluator.result.scenes)
            acc       == evaluator.evaluation.accuracy
            prec      == evaluator.evaluation.precision
            rec       == evaluator.evaluation.recall
            f1        == evaluator.evaluation.f1_score
        IN  /\ matched = Cardinality(EvalMatchedSet)
            /\ \A x \in {acc, prec, rec, f1} : x[2] > 0
            /\ IF annotated = 0 THEN acc = <<0, 1>> /\ rec = <<0, 1>>
               ELSE /\ acc[1] * annotated = 100 * matched * acc[2]
                    /\ rec[1] * annotated = matched * rec[2]
            /\ IF detected = 0 THEN prec = <<0, 1>>
               ELSE prec[1] * detected = matched * prec[2]
            /\ IF prec[1] = 0 /\ rec[1] = 0 THEN f1 = <<0, 1>>
               ELSE f1[1] * (prec[1] * rec[2] + rec[1] * prec[2])
                      = 2 * prec[1] * rec[1] * f1[2]

\* Annotated scenes and no detected scene, and the reverse, both evaluated.
C4_Witness ==
    /\ evaluator.pc = "returned"
    /\ Len(evaluator.annotation.scenes) = 2
    /\ Len(evaluator.result.scenes) = 0
    /\ evaluator.evaluation.precision = <<0, 1>>
    /\ evaluator.evaluation.f1_score = <<0, 1>>

\* The spellings that pathlib takes for one path: "videos/a.mp4",
\* "videos//a.mp4" and "./videos/a.mp4"; "videos/../videos/a.mp4" is another.
EvalSamePathClasses ==
    { { <<"videos", "a.mp4">>, <<"videos", "", "a.mp4">>, <<".", "videos", "a.mp4">> },
      { <<"videos", "..", "videos", "a.mp4">> },
      { <<"videos", "b.mp4">> } }

EvalSameFile(a, b) == \E cls \in EvalSamePathClasses : a \in cls /\ b \in cls

\* C10: the evaluator raises when the two video paths differ as paths, before
\* any scene is compared and without an evaluation result; it does not raise
\* for that when they are the same path.
C10_PathMismatch ==
    evaluator.pc \in {"raised", "returned"} =>
        IF EvalSameFile(evaluator.annotation.video_file_path,
                        evaluator.result.video_file_path)
        THEN ~(evaluator.pc = "raised" /\ evaluator.error = "paths do not match")
        ELSE /\ evaluator.pc = "raised"
             /\ evaluator.error = "paths do not match"
             /\ evaluator.compared = 0
             /\ "evaluation" \notin DOMAIN evaluator

\* Two spellings of one path with scenes on both sides are evaluated.
C10_Witness ==
    /\ evaluator.pc = "returned"
    /\ evaluator.annotation.video_file_path = <<"videos", "", "a.mp4">>
    /\ evaluator.result.video_file_path = <<".", "videos", "a.mp4">>
    /\ evaluator.compared = 1

(***************************************************************************)
(* transcription/parsers.py: parse_vtt_file.                               *)
(*                                                                         *)
(* A cue line is the sequence of its tokens: runs of text, inline          *)
(* timestamp tags <HH:MM:SS.mmm>, and the tags <c> and </c>.  A caption is *)
(* its start timestamp and the lines of its raw text.                      *)
(***************************************************************************)
TextToken(chars) == [kind |-> "text", value |-> chars]
TimeTag(timestamp) == [kind |-> "time", value |-> timestamp]
OpenC == [kind |-> "c", value |-> <<>>]
CloseC == [kind |-> "/c", value |-> <<>>]

\* webvtt.Caption.CUE_TEXT_TAGS.findall(line): the line holds a tag.
HasCueTags(line) == \E i \in 1..Len(line) : line[i].kind # "text"

\* text.strip()
RECURSIVE StrStrip(_)
StrStrip(chars) ==
    IF Len(chars) = 0 THEN chars
    ELSE IF chars[1] = " " THEN StrStrip(Tail(chars))
    ELSE IF chars[Len(chars)] = " " THEN StrStrip(SubSeq(chars, 1, Len(chars) - 1))
    ELSE chars

\* PHRASE_PATTERN.findall(line) from token i on: a timestamp tag, an optional
\* <c>, a run of text, an optional </c>; a timestamp tag not followed by text
\* matches nothing and the search goes on behind it.
RECURSIVE PhraseMatches(_, _)
PhraseMatches(line, i) ==
    IF i > Len(line) THEN <<>>
    ELSE IF line[i].kind # "time" THEN PhraseMatches(line, i + 1)
    ELSE LET t == IF i + 1 <= Len(line) /\ line[i + 1].kind = "c" THEN i + 2 ELSE i + 1
         IN  IF t <= Len(line) /\ line[t].kind = "text"
             THEN <<<<line[i].value, line[t].value>>>>
                  \o PhraseMatches(line,
                        IF t + 1 <= Len(line) /\ line[t + 1].kind = "/c"
                        THEN t + 2 ELSE t + 1)
             ELSE PhraseMatches(line, i + 1)

\* modified_line = f"<{caption.start}>{line}"
ModifiedLine(caption, k) == <<TimeTag(caption.start)>> \o caption.lines[k]

\* The phrases of one line of a caption (none for a line without tags).
LinePhrases(caption, k) ==
    IF ~HasCueTags(caption.lines[k]) THEN <<>>
    ELSE LET matches == PhraseMatches(ModifiedLine(caption, k), 1)
         IN  [n \in 1..Len(matches) |->
                [text |-> StrStrip(matches[n][2]),
                 start_time_ms |-> convert_timestamp_to_ms(matches[n][1]).value]]

RECURSIVE CaptionPhrases(_, _)
CaptionPhrases(caption, k) ==
    IF k > Len(caption.lines) THEN <<>>
    ELSE LinePhrases(caption, k) \o CaptionPhrases(caption, k + 1)

RECURSIVE VttPhrases(_, _)
VttPhrases(captions, c) ==
    IF c > Len(captions) THEN <<>>
    ELSE CaptionPhrases(captions[c], 1) \o VttPhrases(captions, c + 1)

\* parse_vtt_file
ParseVttFile(file) ==
    IF ~file.exists
    THEN [pc |-> "raised", error |-> "FileNotFoundError", file |-> file]
    ELSE [pc |-> "returned", file |-> file,
          transcript |-> [phrases |-> VttPhrases(file.captions, 1)]]

\* Caption files: up to MaxCues cues of up to MaxCueLines lines; a line is a
\* run of text, or an optional run of text followed by up to MaxLineTags
\* timestamped words.
MaxCues == 2
MaxCueLines == 2
MaxLineTags == 1

VttClockMs == {0, 1000, 2000, 3000}

VttEndMs == 4000

VttTaggedWord(ms) ==
    <<TimeTag(FormatMs(ms, "dot")), OpenC, TextToken(<<" ", "b">>), CloseC>>

RECURSIVE VttTaggedWords(_)
VttTaggedWords(times) ==
    IF Len(times) = 0 THEN <<>>
    ELSE VttTaggedWord(Head(times)) \o VttTaggedWords(Tail(times))

\* A line described by whether it leads with text and by the times of its tags.
VttLineOf(shape) ==
    (IF shape.lead THEN <<TextToken(<<"a">>)>> ELSE <<>>) \o VttTaggedWords(shape.tags)

VttLineShapes ==
    { sh \in [lead : BOOLEAN, tags : SeqsUpTo(VttClockMs, MaxLineTags)] :
        sh.lead \/ Len(sh.tags) > 0 }

VttCueShapes ==
    [start : VttClockMs,
     lines : UNION {[1..n -> VttLineShapes] : n \in 1..MaxCueLines}]

RECURSIVE FlattenSeqs(_)
FlattenSeqs(ss) == IF Len(ss) = 0 THEN <<>> ELSE Head(ss) \o FlattenSeqs(Tail(ss))

\* The inline tag times of a cue in reading order.
VttCueTagTimes(cue) == FlattenSeqs([k \in 1..Len(cue.lines) |-> cue.lines[k].tags])

VttCueEnd(cues, c) == IF c < Len(cues) THEN cues[c + 1].start ELSE VttEndMs

\* Valid caption files: the cues are in chronological order and do not
\* overlap, and the inline tags of a cue increase in reading order and lie
\* after the cue's start and before its end.
VttValid(cues) ==
    \A c \in 1..Len(cues) :
        LET times == VttCueTagTimes(cues[c])
        IN  /\ c < Len(cues) => cues[c].start < cues[c + 1].start
            /\ \A n \in 1..Len(times) :
                 /\ cues[c].start < times[n]
                 /\ times[n] < VttCueEnd(cues, c)
                 /\ n < Len(times) => times[n] < times[n + 1]

VttCaptionOf(cue) ==
    [start |-> FormatMs(cue.start, "dot"),
     lines |-> [k \in 1..Len(cue.lines) |-> VttLineOf(cue.lines[k])]]

VttFiles ==
    { [exists |-> TRUE, captions |-> [c \in 1..Len(cues) |-> VttCaptionOf(cues[c])]] :
        cues \in {cs \in SeqsUpTo(VttCueShapes, MaxCues) : VttValid(cs)} }

VttInit ==
    /\ parser = [pc |-> "idle"]
    /\ conv = Off /\ evaluator = Off /\ ssim = Off /\ adaptive = Off
    /\ extractor = Off /\ aligner = Off
    /\ workflow = Off /\ enhancer = Off /\ llm = Off

ParseVtt ==
    /\ parser.pc = "idle"
    /\ \E file \in VttFiles : parser' = ParseVttFile(file)
    /\ UNCHANGED <<conv, evaluator, ssim, adaptive, extractor, aligner,
                 workflow, enhancer, llm>>

ParseMissingVtt ==
    /\ parser.pc = "idle"
    /\ parser' = ParseVttFile([exists |-> FALSE, captions |-> <<>>])
    /\ UNCHANGED <<conv, evaluator, ssim, adaptive, extractor, aligner,
                 workflow, enhancer, llm>>

VttNext == ParseVtt \/ ParseMissingVtt

SpecVtt == VttInit /\ [][VttNext]_vars

NonDecreasing(phrases) ==
    \A n \in 1..(Len(phrases) - 1) :
        phrases[n].start_time_ms <= phrases[n + 1].start_time_ms

\* C6: for valid WebVTT input (cues in chronological order, inline tags of a
\* cue increasing and not before the cue's start), the phrases of the parsed
\* Transcript are non-decreasing in start_time_ms, also for cues with more
\* than one line that holds tags.
C6_TranscriptNonDecreasing ==
    parser.pc = "returned" => NonDecreasing(parser.transcript.phrases)

\* The same for the files in which no cue has two lines with tags.
C6_SingleTaggedLine ==
    (/\ parser.pc = "returned"
     /\ \A c \in 1..Len(parser.file.captions) :
           Cardinality({k \in 1..Len(parser.file.captions[c].lines) :
                          HasCueTags(parser.file.captions[c].lines[k])}) <= 1)
    => NonDecreasing(parser.transcript.phrases)

(***************************************************************************)
(* The decoded video, as the frame extractor and the structural-similarity *)
(* detector see it through cv2.VideoCapture.                               *)
(*                                                                         *)
(* A frame is one of a few images; the frame rate is given in half frames  *)
(* per second and intervals in half seconds, so that int(fps * secs)       *)
(* truncates.  CAP_PROP_POS_MSEC after a read is, depending on the OpenCV  *)
(* build, the time of the frame just read or of the frame after it.        *)
(***************************************************************************)
Images == {0, 1, 2}

\* Frame rates 1.0, 1.5 and 2.5 frames per second.
FpsHalves == {2, 3, 5}

\* Intervals of 0.5 s, 1.0 s and 1.5 s.
SampleIntervalHalves == {1, 2, 3}

\* Thresholds 0.5 and 0.8, in percent.
ThresholdsPct == {50, 80}

MinSceneLengthSecs == {0, 1, 2}

\* The length of the longest video.
MaxFrames == 6

UsPerSecond == 1000000

\* skimage.metrics.structural_similarity in percent: 1.0 for equal images,
\* lower the further apart they are, the same in both directions.
StructuralSimilarityPct(im1, im2) == 100 - 30 * Abs(im1 - im2)

\* int(fps * secs) for fps in half frames per second, secs in half seconds.
IntFpsTimesHalfSecs(fps2, halfSecs) == (fps2 * halfSecs) \div 4

\* int(fps * secs) for fps in half frames per second, secs in whole seconds.
IntFpsTimesSecs(fps2, secs) == (fps2 * secs) \div 2

\* video.get(cv2.CAP_PROP_POS_MSEC) after frame_count reads, in microseconds.
PosUsec(video, frame_count) ==
    IF video.pos_is_current_frame
    THEN ((frame_count - 1) * 2 * UsPerSecond) \div video.fps2
    ELSE (frame_count * 2 * UsPerSecond) \div video.fps2

\* The milliseconds rounded to the nearest instead of cut off.
FormatTimeRounded(time_us, style) ==
    LET total_seconds == time_us \div UsPerSecond
        milliseconds  == ((time_us % UsPerSecond) + 500) \div UsPerMs
        hours         == total_seconds \div 3600
        rem           == total_seconds % 3600
    IN  FormatFields(hours, rem \div 60, rem % 60, milliseconds, style)

\* _format_time(time_ms) of video.py ("underscore") and ssim.py ("dot"), for a
\* time given in microseconds: int(time_ms / 1000) and int(time_ms % 1000).
FormatTime(time_us, style) ==
    LET total_seconds == time_us \div UsPerSecond
        milliseconds  == (time_us % UsPerSecond) \div UsPerMs
        hours         == total_seconds \div 3600
        rem           == total_seconds % 3600
    IN  FormatFields(hours, rem \div 60, rem % 60, milliseconds, style)

Videos == [fps2 : FpsHalves, pos_is_current_frame : BOOLEAN]

\* Why video.read() returns ret = False.
ReadFailures == {"end of stream", "decode error"}

(***************************************************************************)
(* scene_detection/ssim.py: StructuralSimilaritySceneDetector.             *)
(***************************************************************************)
NoFrame == <<>>

\* The guard that lets a boundary through one frame early.
SsimTooShortOffByOne(frame_count, scene_start_frame, min_scene_length_frames) ==
    (frame_count - scene_start_frame) < min_scene_length_frames - 1

\* (frame_count - scene_start_frame) < min_scene_length_frames
SsimTooShort(frame_count, scene_start_frame, min_scene_length_frames) ==
    (frame_count - scene_start_frame) < min_scene_length_frames

\* One of the two detectors is run.
SceneInit ==
    /\ \E detector_name \in {"ssim", "adaptive"} :
          /\ ssim = IF detector_name = "ssim" THEN [pc |-> "idle"] ELSE Off
          /\ adaptive = IF detector_name = "adaptive" THEN [pc |-> "idle"] ELSE Off
    /\ conv = Off /\ parser = Off /\ evaluator = Off
    /\ extractor = Off /\ aligner = Off
    /\ workflow = Off /\ enhancer = Off /\ llm = Off

\* run() up to the loop of _detect_scenes_using_ssim: the detector's
\* parameters, the opened video and the locals set before the first read.
SsimRun ==
    /\ ssim.pc = "idle"
    /\ \E video \in Videos, threshold \in ThresholdsPct,
          min_scene_length_secs \in MinSceneLengthSecs,
          sample_interval2 \in SampleIntervalHalves :
          ssim' = [pc |-> "loop",
                   video |-> video,
                   released |-> FALSE,
                   threshold |-> threshold,
                   min_scene_length_secs |-> min_scene_length_secs,
                   sample_interval2 |-> sample_interval2,
                   scenes |-> <<>>,
                   prev_frame |-> NoFrame,
                   frame |-> NoFrame,
                   frame_count |-> 0,
                   scene_start_frame |-> 0,
                   scene_start_time |-> 0,
                   frame_interval |-> IntFpsTimesHalfSecs(video.fps2, sample_interval2),
                   min_scene_length_frames |->
                       IntFpsTimesSecs(video.fps2, min_scene_length_secs)]
    /\ UNCHANGED <<conv, parser, evaluator, adaptive, extractor, aligner,
                 workflow, enhancer, llm>>

\* run() when the video cannot be opened.
SsimOpenFails ==
    /\ ssim.pc = "idle"
    /\ ssim' = [pc |-> "raised", error |-> "Error opening video file",
                released |-> FALSE]
    /\ UNCHANGED <<conv, parser, evaluator, adaptive, extractor, aligner,
                 workflow, enhancer, llm>>

\* The pass that opens the next scene at the frame where the scene before it
\* was opened.
SsimLoopBodyStaleStart(d, frame) ==
    LET frame_count == d.frame_count + 1
        counted == [d EXCEPT !.frame_count = frame_count, !.frame = <<frame>>]
    IN  IF d.frame_interval = 0
        THEN [counted EXCEPT !.pc = "raised"] @@ [error |-> "ZeroDivisionError"]
        ELSE IF frame_count % d.frame_interval # 0 THEN counted
        ELSE IF d.prev_frame = NoFrame THEN [counted EXCEPT !.prev_frame = <<frame>>]
        ELSE IF SsimTooShort(frame_count, d.scene_start_frame,
                             d.min_scene_length_frames)
        THEN [counted EXCEPT !.prev_frame = <<frame>>]
        ELSE IF StructuralSimilarityPct(d.prev_frame[1], frame) < d.threshold
        THEN LET frame_time == PosUsec(d.video, frame_count)
             IN  [counted EXCEPT
                    !.scenes = Append(@, [index |-> Len(d.scenes),
                                          start_time |-> FormatTime(d.scene_start_time,
                                                                    "dot"),
                                          end_time |-> FormatTime(frame_time, "dot"),
                                          start_frame |-> d.scene_start_frame,
                                          end_frame |-> frame_count]),
                    !.scene_start_time = frame_time,
                    !.prev_frame = <<frame>>]
        ELSE [counted EXCEPT !.prev_frame = <<frame>>]

\* The pass that keeps the compared sample when the scene is too short.
SsimLoopBodyGuardKeepsPrev(d, frame) ==
    LET frame_count == d.frame_count + 1
        counted == [d EXCEPT !.frame_count = frame_count, !.frame = <<frame>>]
    IN  IF d.frame_interval = 0
        THEN [counted EXCEPT !.pc = "raised"] @@ [error |-> "ZeroDivisionError"]
        ELSE IF frame_count % d.frame_interval # 0 THEN counted
        ELSE IF d.prev_frame = NoFrame THEN [counted EXCEPT !.prev_frame = <<frame>>]
        ELSE IF SsimTooShort(frame_count, d.scene_start_frame,
                             d.min_scene_length_frames)
        THEN counted
        ELSE IF StructuralSimilarityPct(d.prev_frame[1], frame) < d.threshold
        THEN LET frame_time == PosUsec(d.video, frame_count)
             IN  [counted EXCEPT
                    !.scenes = Append(@, [index |-> Len(d.scenes),
                                          start_time |-> FormatTime(d.scene_start_time,
                                                                    "dot"),
                                          end_time |-> FormatTime(frame_time, "dot"),
                                          start_frame |-> d.scene_start_frame,
                                          end_frame |-> frame_count]),
                    !.scene_start_frame = frame_count,
                    !.scene_start_time = frame_time,
                    !.prev_frame = <<frame>>]
        ELSE [counted EXCEPT !.prev_frame = <<frame>>]

\* One pass of the while loop in which video.read() returns a frame.
SsimLoopBody(d, frame) ==
    LET frame_count == d.frame_count + 1
        counted == [d EXCEPT !.frame_count = frame_count, !.frame = <<frame>>]
    IN  IF d.frame_interval = 0
        THEN [counted EXCEPT !.pc = "raised"] @@ [error |-> "ZeroDivisionError"]
        ELSE IF frame_count % d.frame_interval # 0 THEN counted
        ELSE IF d.prev_frame = NoFrame THEN [counted EXCEPT !.prev_frame = <<frame>>]
        ELSE IF SsimTooShort(frame_count, d.scene_start_frame,
                             d.min_scene_length_frames)
        THEN [counted EXCEPT !.prev_frame = <<frame>>]
        ELSE IF StructuralSimilarityPct(d.prev_frame[1], frame) < d.threshold
        THEN LET frame_time == PosUsec(d.video, frame_count)
             IN  [counted EXCEPT
                    !.scenes = Append(@, [index |-> Len(d.scenes),
                                          start_time |-> FormatTime(d.scene_start_time,
                                                                    "dot"),
                                          end_time |-> FormatTime(frame_time, "dot"),
                                          start_frame |-> d.scene_start_frame,
                                          end_frame |-> frame_count]),
                    !.scene_start_frame = frame_count,
                    !.scene_start_time = frame_time,
                    !.prev_frame = <<frame>>]
        ELSE [counted EXCEPT !.prev_frame = <<frame>>]

SsimFrame ==
    /\ ssim.pc = "loop"
    /\ ssim.frame_count < MaxFrames
    /\ \E frame \in Images : ssim' = SsimLoopBody(ssim, frame)
    /\ UNCHANGED <<conv, parser, evaluator, adaptive, extractor, aligner,
                 workflow, enhancer, llm>>

\* The end of the stream that closes the open scene at the last frame read.
SsimEndOfStreamWithTail ==
    /\ ssim.pc = "loop"
    /\ \E no_frame \in ReadFailures :
          LET scenes ==
                IF ssim.frame_count > ssim.scene_start_frame
                THEN Append(ssim.scenes,
                            [index |-> Len(ssim.scenes),
                             start_time |-> FormatTime(ssim.scene_start_time, "dot"),
                             end_time |-> FormatTime(PosUsec(ssim.video,
                                                             ssim.frame_count), "dot"),
                             start_frame |-> ssim.scene_start_frame,
                             end_frame |-> ssim.frame_count])
                ELSE ssim.scenes
          IN  ssim' = [ssim EXCEPT !.pc = "returned", !.released = TRUE,
                                   !.scenes = scenes]
                      @@ [no_frame |-> no_frame,
                          result |->
                            [scene_count |-> Len(scenes),
                             scenes |-> scenes,
                             min_scene_length_secs |-> ssim.min_scene_length_secs,
                             min_scene_length_frames |-> 0,
                             adaptive_threshold |-> ssim.threshold,
                             min_content_val |-> 0,
                             detector_name |-> "ssim"]]
    /\ UNCHANGED <<conv, parser, evaluator, adaptive, extractor, aligner,
                 workflow, enhancer, llm>>

\* video.read() returns no frame, at the end of the stream or because the next
\* frame cannot be decoded: the loop ends, the video is released and run() builds the SceneDetectionResult.
SsimEndOfStream ==
    /\ ssim.pc = "loop"
    /\ \E no_frame \in ReadFailures :
          ssim' = [ssim EXCEPT !.pc = "returned", !.released = TRUE]
                  @@ [no_frame |-> no_frame,
                      result |->
                        [scene_count |-> Len(ssim.scenes),
                         scenes |-> ssim.scenes,
                         min_scene_length_secs |-> ssim.min_scene_length_secs,
                         min_scene_length_frames |-> 0,
                         adaptive_threshold |-> ssim.threshold,
                         min_content_val |-> 0,
                         detector_name |-> "ssim"]]
    /\ UNCHANGED <<conv, parser, evaluator, adaptive, extractor, aligner,
                 workflow, enhancer, llm>>

(***************************************************************************)
(* scene_detection/adaptive.py: AdaptiveSceneDetector.  The detection is   *)
(* scenedetect's; of it the model keeps the contract of min_scene_len: a   *)
(* cut is taken only when that many frames have passed since the last one. *)
(***************************************************************************)
AdaptiveThresholds == {15, 30}

MinContentValues == {5, 15}

RECURSIVE ScenesFromCuts(_, _, _)
ScenesFromCuts(cuts, n, last) ==
    IF n > Len(cuts) THEN <<[start_frame |-> last, end_frame |-> MaxFrames]>>
    ELSE <<[start_frame |-> last, end_frame |-> cuts[n]]>>
         \o ScenesFromCuts(cuts, n + 1, cuts[n])

\* What detect() may return for a detector with this min_scene_len (in half
\* frames): the scenes between cuts that keep that distance, or no scene.
LibraryDetect(min_scene_len2) ==
    {<<>>} \cup
    { ScenesFromCuts(cuts, 1, 0) :
        cuts \in { cs \in SeqsUpTo(1..(MaxFrames - 1), 2) :
                     \A n \in 1..Len(cs) :
                        2 * (cs[n] - (IF n = 1 THEN 0 ELSE cs[n - 1]))
                          >= (IF min_scene_len2 < 2 THEN 2 ELSE min_scene_len2) } }

\* The int field min_scene_length_frames of SceneDetectionResult takes a float
\* only when it has no fractional part (frames counted in halves here).
IsWholeFrames(frames2) == frames2 % 2 = 0

\* AdaptiveSceneDetector.run: the result is built after detect() has run, and
\* building it raises when a field does not validate.
AdaptiveRun ==
    /\ adaptive.pc = "idle"
    /\ \E fps2 \in FpsHalves, adaptive_threshold \in AdaptiveThresholds,
          min_scene_length_secs \in MinSceneLengthSecs,
          min_content_value \in MinContentValues :
          LET min_scene_length_frames2 == min_scene_length_secs * fps2
          IN  \E scene_list \in LibraryDetect(min_scene_length_frames2) :
                adaptive' =
                  IF ~IsWholeFrames(min_scene_length_frames2)
                  THEN [pc |-> "raised", error |-> "ValidationError",
                        fps2 |-> fps2,
                        detector |-> [adaptive_threshold |-> adaptive_threshold,
                                      min_content_val |-> min_content_value,
                                      min_scene_len2 |-> min_scene_length_frames2]]
                  ELSE
                  [pc |-> "returned",
                   fps2 |-> fps2,
                   detector |-> [adaptive_threshold |-> adaptive_threshold,
                                 min_content_val |-> min_content_value,
                                 min_scene_len2 |-> min_scene_length_frames2],
                   result |->
                     [scene_count |-> Len(scene_list),
                      min_scene_length_secs |-> min_scene_length_secs,
                      min_scene_length_frames2 |-> min_scene_length_frames2,
                      adaptive_threshold |-> adaptive_threshold,
                      min_content_val |-> min_content_value,
                      scenes |-> [i \in 1..Len(scene_list) |->
                                    [index |-> i - 1,
                                     start_frame |-> scene_list[i].start_frame,
                                     end_frame |-> scene_list[i].end_frame]]]]
    /\ UNCHANGED <<conv, parser, evaluator, ssim, extractor, aligner,
                 workflow, enhancer, llm>>

SceneNext == SsimRun \/ SsimOpenFails \/ SsimFrame \/ SsimEndOfStream \/ AdaptiveRun

SpecScene == SceneInit /\ [][SceneNext]_vars

ExtractorThresholdsPct == {70, 80, 100000}

Chars(str) ==
    CASE str = "frame" -> <<"f", "r", "a", "m", "e">>
      [] str = "jpg"   -> <<"j", "p", "g">>

\* f"frame-{frame_number:04d}-{start_str}-{end_str}.{self._image_format}"
GenerateFilename(frame_number, start_time_us, end_time_us, image_format) ==
    Chars("frame") \o <<"-">> \o Pad(frame_number, 4) \o <<"-">>
    \o FormatTime(start_time_us, "underscore") \o <<"-">>
    \o FormatTime(end_time_us, "underscore") \o <<".">> \o Chars(image_format)

\* _images_differ_using_structural_similarity_index
ImagesDiffer(img1, img2, threshold) == StructuralSimilarityPct(img1, img2) < threshold

ExtractorInit ==
    /\ extractor = [pc |-> "idle"]
    /\ aligner = [pc |-> "idle"]
    /\ conv = Off /\ parser = Off /\ evaluator = Off /\ ssim = Off /\ adaptive = Off
    /\ workflow = Off /\ enhancer = Off /\ llm = Off

\* run() up to its loop: the video is opened and the locals are set.
ExtractorRun ==
    /\ extractor.pc = "idle"
    /\ \E video \in Videos, threshold \in ExtractorThresholdsPct,
          sample_interval2 \in SampleIntervalHalves :
          extractor' = [pc |-> "loop",
                        video |-> video,
                        released |-> FALSE,
                        threshold |-> threshold,
                        sample_interval2 |-> sample_interval2,
                        image_format |-> "jpg",
                        frame_interval |->
                            IntFpsTimesHalfSecs(video.fps2, sample_interval2),
                        frame |-> NoFrame,
                        prev_frame |-> NoFrame,
                        frame_count |-> 0,
                        saved_count |-> 0,
                        frame_time |-> 0,
                        prev_frame_time |-> 0,
                        saved |-> <<>>,
                        files |-> {}]
    /\ UNCHANGED <<conv, parser, evaluator, ssim, adaptive, aligner,
                 workflow, enhancer, llm>>

\* run() when the video cannot be opened.
ExtractorOpenFails ==
    /\ extractor.pc = "idle"
    /\ extractor' = [pc |-> "raised", error |-> "Error opening video file",
                     released |-> FALSE, saved |-> <<>>, files |-> {}]
    /\ UNCHANGED <<conv, parser, evaluator, ssim, adaptive, aligner,
                 workflow, enhancer, llm>>

\* The call of _save_image: the arguments the file name was made from, and
\* the name.
SaveImage(frame_number, start_time_us, end_time_us, image_format) ==
    [frame_number |-> frame_number,
     start_time_us |-> start_time_us,
     end_time_us |-> end_time_us,
     file_name |-> GenerateFilename(frame_number, start_time_us, end_time_us,
                                    image_format)]

\* The loop body that takes the time of every sampled frame, kept or not, as
\* the start of the next kept frame.
ExtractorLoopBodyPrevSampled(x, frame) ==
    LET frame_count == x.frame_count + 1
        frame_time == PosUsec(x.video, frame_count)
        read == [x EXCEPT !.frame = <<frame>>, !.frame_count = frame_count,
                          !.frame_time = frame_time]
    IN  IF x.frame_interval = 0
        THEN [read EXCEPT !.pc = "raised"] @@ [error |-> "ZeroDivisionError"]
        ELSE IF frame_count % x.frame_interval # 0 THEN read
        ELSE IF \/ x.prev_frame = NoFrame
                \/ ImagesDiffer(x.prev_frame[1], frame, x.threshold)
        THEN [read EXCEPT
                !.files = @ \cup {GenerateFilename(x.saved_count, x.prev_frame_time,
                                                   frame_time, x.image_format)},
                !.saved = Append(@, SaveImage(x.saved_count, x.prev_frame_time,
                                              frame_time, x.image_format)),
                !.prev_frame = <<frame>>,
                !.prev_frame_time = frame_time,
                !.saved_count = @ + 1]
        ELSE [read EXCEPT !.prev_frame_time = frame_time]

\* The loop body that compares with the frame sampled before, kept or not.
ExtractorLoopBodyPrevSample(x, frame) ==
    LET frame_count == x.frame_count + 1
        frame_time == PosUsec(x.video, frame_count)
        read == [x EXCEPT !.frame = <<frame>>, !.frame_count = frame_count,
                          !.frame_time = frame_time]
    IN  IF x.frame_interval = 0
        THEN [read EXCEPT !.pc = "raised"] @@ [error |-> "ZeroDivisionError"]
        ELSE IF frame_count % x.frame_interval # 0 THEN read
        ELSE IF \/ x.prev_frame = NoFrame
                \/ ImagesDiffer(x.prev_frame[1], frame, x.threshold)
        THEN [read EXCEPT
                !.files = @ \cup {GenerateFilename(x.saved_count, x.prev_frame_time,
                                                   frame_time, x.image_format)},
                !.saved = Append(@, SaveImage(x.saved_count, x.prev_frame_time,
                                              frame_time, x.image_format)),
                !.prev_frame = <<frame>>,
                !.prev_frame_time = frame_time,
                !.saved_count = @ + 1]
        ELSE [read EXCEPT !.prev_frame = <<frame>>]

\* One pass of the while loop in which video.read() returns a frame.
ExtractorLoopBody(x, frame) ==
    LET frame_count == x.frame_count + 1
        frame_time == PosUsec(x.video, frame_count)
        read == [x EXCEPT !.frame = <<frame>>, !.frame_count = frame_count,
                          !.frame_time = frame_time]
    IN  IF x.frame_interval = 0
        THEN [read EXCEPT !.pc = "raised"] @@ [error |-> "ZeroDivisionError"]
        ELSE IF frame_count % x.frame_interval # 0 THEN read
        ELSE IF \/ x.prev_frame = NoFrame
                \/ ImagesDiffer(x.prev_frame[1], frame, x.threshold)
        THEN [read EXCEPT
                !.files = @ \cup {GenerateFilename(x.saved_count, x.prev_frame_time,
                                                   frame_time, x.image_format)},
                !.saved = Append(@, SaveImage(x.saved_count, x.prev_frame_time,
                                              frame_time, x.image_format)),
                !.prev_frame = <<frame>>,
                !.prev_frame_time = frame_time,
                !.saved_count = @ + 1]
        ELSE read

ExtractorFrame ==
    /\ extractor.pc = "loop"
    /\ extractor.frame_count < MaxFrames
    /\ \E frame \in Images : extractor' = ExtractorLoopBody(extractor, frame)
    /\ UNCHANGED <<conv, parser, evaluator, ssim, adaptive, aligner,
                 workflow, enhancer, llm>>

\* video.read() returns no frame, at the end of the stream or because the next
\* frame cannot be decoded: the loop ends and the video is released.
ExtractorEndOfStream ==
    /\ extractor.pc = "loop"
    /\ \E no_frame \in ReadFailures :
          extractor' = [pc |-> "returned", released |-> TRUE,
                        no_frame |-> no_frame,
                        video |-> extractor.video,
                        frame_interval |-> extractor.frame_interval,
                        frame_count |-> extractor.frame_count,
                        saved_count |-> extractor.saved_count,
                        saved |-> extractor.saved,
                        files |-> extractor.files]
    /\ UNCHANGED <<conv, parser, evaluator, ssim, adaptive, aligner,
                 workflow, enhancer, llm>>

(***************************************************************************)
(* alignment.py: Transcription, SubtitleFrameAligner.                      *)
(***************************************************************************)
\* The characters of file names in the order of their code points.
CodePointOrder ==
    <<"-", ".", "0", "1", "2", "3", "4", "5", "6", "7", "8", "9", "_",
      "a", "e", "f", "g", "j", "m", "p", "r">>

CodePoint(c) == CHOOSE n \in 1..Len(CodePointOrder) : CodePointOrder[n] = c

\* a < b for two strings.
RECURSIVE StrLess(_, _, _)
StrLess(a, b, i) ==
    IF i > Len(b) THEN FALSE
    ELSE IF i > Len(a) THEN TRUE
    ELSE IF a[i] = b[i] THEN StrLess(a, b, i + 1)
    ELSE CodePoint(a[i]) < CodePoint(b[i])

\* sorted(names)
RECURSIVE Sorted(_)
Sorted(names) ==
    IF names = {} THEN <<>>
    ELSE Only({ <<least>> \o Sorted(names \ {least}) :
                least \in {n \in names : \A o \in names \ {n} : StrLess(n, o, 1)} })

\* Path.stem: the name up to its last "."
Stem(name) ==
    LET dots == {i \in 1..Len(name) : name[i] = "."}
    IN  IF dots = {} THEN name
        ELSE SubSeq(name, 1, (CHOOSE i \in dots : \A j \in dots : j <= i) - 1)

\* _get_transcription: the phrases of every line that holds a tag, each with
\* its text, its timestamp as written, and its place in the transcription.
AlignerLinePhrases(caption, k) ==
    IF ~HasCueTags(caption.lines[k]) THEN <<>>
    ELSE Only({ [n \in 1..Len(matches) |->
                   [text |-> matches[n][2], starts_at |-> matches[n][1]]] :
                matches \in {PhraseMatches(ModifiedLine(caption, k), 1)} })

GetTranscription(file) ==
    FlattenSeqs([c \in 1..Len(file.captions) |->
        FlattenSeqs([k \in 1..Len(file.captions[c].lines) |->
            AlignerLinePhrases(file.captions[c], k)])])

\* TranscribedPhrase.starts_at_ms of every phrase.
StartsAtMs(phrases) ==
    [n \in 1..Len(phrases) |-> convert_timestamp_to_ms(phrases[n].starts_at).value]

\* The range with its end included.
GetPhrasesInRangeClosed(starts_at_ms, start_ms, end_ms) ==
    SelectSeq([n \in 1..Len(starts_at_ms) |-> n],
              LAMBDA n : starts_at_ms[n] >= start_ms /\ starts_at_ms[n] <= end_ms)

\* Transcription.get_phrases_in_range: the places, in order, of the phrases
\* taken by the list comprehension.
GetPhrasesInRange(starts_at_ms, start_ms, end_ms) ==
    SelectSeq([n \in 1..Len(starts_at_ms) |-> n],
              LAMBDA n : starts_at_ms[n] >= start_ms /\ starts_at_ms[n] < end_ms)

RECURSIVE SeqMax(_, _)
SeqMax(values, n) ==
    IF n = 1 THEN values[1]
    ELSE Only({ IF values[n] > rest THEN values[n] ELSE rest :
                rest \in {SeqMax(values, n - 1)} })

\* The end of the transcript without the second added.
GetEndTimeNoMargin(starts_at_ms) == SeqMax(starts_at_ms, Len(starts_at_ms))

\* Transcription.get_end_time (for a transcription with a phrase)
GetEndTime(starts_at_ms) == SeqMax(starts_at_ms, Len(starts_at_ms)) + MsPerSecond

\* " ".join([phrase.text.strip() for phrase in phrases])
RECURSIVE JoinText(_, _, _)
JoinText(phrases, places, n) ==
    IF n > Len(places) THEN <<>>
    ELSE (IF n > 1 THEN <<" ">> ELSE <<>>)
         \o StrStrip(phrases[places[n]].text) \o JoinText(phrases, places, n + 1)

\* The Frame built for one file name in the loop of run().
AlignerFrame(file_name, phrases, starts_at_ms) ==
    Only({ Only({ [index |-> PyInt(parts[2]),
                   starts_at_ms |-> window[1],
                   ends_at_ms |-> window[2],
                   phrases |-> places,
                   text |-> JoinText(phrases, places, 1)] :
                  places \in {GetPhrasesInRange(starts_at_ms, window[1], window[2])} }) :
           parts \in {StrSplit(Stem(file_name), "-")},
           window \in {<<convert_timestamp_to_ms(StrSplit(Stem(file_name), "-")[3]).value,
                         convert_timestamp_to_ms(StrSplit(Stem(file_name), "-")[4]).value>>} })

\* The last frame with the remaining text of the transcription.
AlignerLastFrame(last_frame, phrases, starts_at_ms) ==
    Only({ [last_frame EXCEPT
              !.ends_at_ms = ends_at_ms,
              !.phrases = GetPhrasesInRange(starts_at_ms, last_frame.starts_at_ms,
                                            ends_at_ms),
              !.text = JoinText(phrases,
                                GetPhrasesInRange(starts_at_ms,
                                                  last_frame.starts_at_ms, ends_at_ms),
                                1)] :
           ends_at_ms \in {GetEndTime(starts_at_ms)} })

\* SubtitleFrameAligner.run
AlignerRunOn(vtt_file, frames_dir) ==
    Only({
      IF frame_file_paths = <<>>
      THEN [pc |-> "raised", error |-> "IndexError", vtt_file |-> vtt_file,
            transcription |-> [phrases |-> phrases]]
      ELSE IF phrases = <<>>
      THEN [pc |-> "raised", error |-> "ValueError", vtt_file |-> vtt_file,
            transcription |-> [phrases |-> phrases]]
      ELSE Only({
             [pc |-> "returned", vtt_file |-> vtt_file,
              transcription |-> [phrases |-> phrases],
              original_end_ms |-> frames[Len(frames)].ends_at_ms,
              output |-> [frames |->
                  [frames EXCEPT ![Len(frames)] =
                      AlignerLastFrame(frames[Len(frames)], phrases, starts_at_ms)]]] :
             frames \in {[n \in 1..Len(frame_file_paths) |->
                            AlignerFrame(frame_file_paths[n], phrases, starts_at_ms)]} }) :
      phrases \in {GetTranscription(vtt_file)},
      starts_at_ms \in {StartsAtMs(GetTranscription(vtt_file))},
      frame_file_paths \in {Sorted(frames_dir)} })

\* The caption files handed to the aligner.
AlignerMaxCues == 1

AlignerVttFiles == {file \in VttFiles : Len(file.captions) <= AlignerMaxCues}

\* The aligner is run on the directory an extractor run has filled.
AlignerRun ==
    /\ aligner.pc = "idle"
    /\ extractor.pc = "returned"
    /\ \E vtt_file \in AlignerVttFiles :
          aligner' = AlignerRunOn(vtt_file, extractor.files)
    /\ UNCHANGED <<conv, parser, evaluator, ssim, adaptive, extractor,
                 workflow, enhancer, llm>>

AlignNext ==
    \/ ExtractorRun \/ ExtractorOpenFails \/ ExtractorFrame \/ ExtractorEndOfStream
    \/ AlignerRun

SpecAlign == ExtractorInit /\ [][AlignNext]_vars

(***************************************************************************)
(* Properties of the extractor and the aligner.                            *)
(***************************************************************************)
AlignerFrames == aligner.output.frames

AlignerPhraseMs == StartsAtMs(aligner.transcription.phrases)

AlignerPlaces == 1..Len(aligner.transcription.phrases)

AlignerLatestMs ==
    CHOOSE t \in {AlignerPhraseMs[p] : p \in AlignerPlaces} :
        \A p \in AlignerPlaces : AlignerPhraseMs[p] <= t

PlacesOf(frame) == {frame.phrases[i] : i \in 1..Len(frame.phrases)}

InTranscriptOrder(places) ==
    \A i, j \in 1..Len(places) : i < j => places[i] < places[j]

\* C7: a video with exactly one decodable frame leaves exactly one saved
\* frame when the extractor returns, whatever the threshold, the sampling
\* interval and the frame rate.
C7_OneFrameVideo ==
    (extractor.pc = "returned" /\ extractor.frame_count = 1)
        => (extractor.saved_count = 1 /\ Cardinality(extractor.files) = 1)

\* Supporting C7: with a stride of one frame the single frame is saved.
C7_StrideOne ==
    (extractor.pc = "returned" /\ extractor.frame_count = 1
     /\ extractor.frame_interval = 1)
        => (extractor.saved_count = 1 /\ Cardinality(extractor.files) = 1)

\* C1: the phrases attached to the frames of an aligner output, taken in
\* frame order, are the phrases of the transcription in their order, each
\* once.
C1_FramesPartitionTranscript ==
    aligner.pc = "returned"
        => FlattenSeqs([f \in 1..Len(AlignerFrames) |-> AlignerFrames[f].phrases])
             = [p \in AlignerPlaces |-> p]

\* Supporting C1: every phrase of the transcription is attached to exactly
\* one frame, also one that starts at or after the original end of the last
\* frame.
C1_EachPhraseOnce ==
    aligner.pc = "returned"
        => \A p \in AlignerPlaces :
              Cardinality({f \in 1..Len(AlignerFrames) :
                              p \in PlacesOf(AlignerFrames[f])}) = 1
              /\ \A f \in 1..Len(AlignerFrames) :
                    Cardinality({i \in 1..Len(AlignerFrames[f].phrases) :
                                    AlignerFrames[f].phrases[i] = p}) <= 1

\* C8: in an aligner output the last frame ends one second after the
\* latest phrase start, it holds exactly the phrases that start in
\* [its start, that end), and every phrase start from the first frame's
\* start on lies in the window of a frame.
C8_LastFrameExtended ==
    aligner.pc = "returned"
        => LET last == AlignerFrames[Len(AlignerFrames)]
           IN  /\ last.ends_at_ms = AlignerLatestMs + 1000
               /\ PlacesOf(last) =
                     {p \in AlignerPlaces :
                         /\ last.starts_at_ms <= AlignerPhraseMs[p]
                         /\ AlignerPhraseMs[p] < AlignerLatestMs + 1000}
               /\ \A p \in AlignerPlaces :
                     AlignerPhraseMs[p] >= AlignerFrames[1].starts_at_ms
                        => \E f \in 1..Len(AlignerFrames) :
                              /\ AlignerFrames[f].starts_at_ms <= AlignerPhraseMs[p]
                              /\ AlignerPhraseMs[p] < AlignerFrames[f].ends_at_ms

\* C8 happens: the last of several frames is moved to a later end and takes
\* a phrase that starts at or after the end it had.
C8_Witness ==
    /\ aligner.pc = "returned"
    /\ Len(AlignerFrames) >= 2
    /\ AlignerFrames[Len(AlignerFrames)].ends_at_ms > aligner.original_end_ms
    /\ \E p \in PlacesOf(AlignerFrames[Len(AlignerFrames)]) :
          AlignerPhraseMs[p] >= aligner.original_end_ms

\* C9: every frame holds, in transcript order, exactly the phrases whose
\* start is at or after the frame's start and before its end; a phrase that
\* starts at the end of a frame is in the next frame and not in that one.
C9_HalfOpenRange ==
    aligner.pc = "returned"
        => \A f \in 1..Len(AlignerFrames) :
              /\ InTranscriptOrder(AlignerFrames[f].phrases)
              /\ \A p \in AlignerPlaces :
                    p \in PlacesOf(AlignerFrames[f])
                       <=> /\ AlignerFrames[f].starts_at_ms <= AlignerPhraseMs[p]
                           /\ AlignerPhraseMs[p] < AlignerFrames[f].ends_at_ms
              /\ \A p \in AlignerPlaces :
                    (f < Len(AlignerFrames)
                     /\ AlignerPhraseMs[p] = AlignerFrames[f].ends_at_ms)
                       => /\ p \notin PlacesOf(AlignerFrames[f])
                          /\ p \in PlacesOf(AlignerFrames[f + 1])

\* C9 happens: a phrase starts exactly where a frame that holds a phrase
\* ends, and the next frame, not the last one, holds it.
C9_Witness ==
    /\ aligner.pc = "returned"
    /\ \E f \in 1..Len(AlignerFrames) : \E p \in AlignerPlaces :
          /\ f + 1 < Len(AlignerFrames)
          /\ AlignerFrames[f].phrases # <<>>
          /\ AlignerPhraseMs[p] = AlignerFrames[f].ends_at_ms
          /\ p \in PlacesOf(AlignerFrames[f + 1])

(***************************************************************************)
(* The evaluator on scenes whose time strings were written by hand.        *)
(***************************************************************************)
\* "00:00:01.000", "00:00:03.000", and four strings not of that form:
\* "0:0:1.0", "00:00:01", "00_00_01_000" and "".
TimeOne == <<"0","0",":","0","0",":","0","1",".","0","0","0">>

TimeThree == <<"0","0",":","0","0",":","0","3",".","0","0","0">>

TimeShortFields == <<"0",":","0",":","1",".","0">>

TimeNoFraction == <<"0","0",":","0","0",":","0","1">>

TimeUnderscores == <<"0","0","_","0","0","_","0","1","_","0","0","0">>

TimeEmpty == <<>>

MaxTimedScenes == 2

EvalTimedScenes ==
    { [start_time |-> TimeOne, end_time |-> TimeThree],
      [start_time |-> TimeShortFields, end_time |-> TimeThree],
      [start_time |-> TimeNoFraction, end_time |-> TimeThree],
      [start_time |-> TimeOne, end_time |-> TimeUnderscores],
      [start_time |-> TimeEmpty, end_time |-> TimeEmpty] }

EvalTimedInputs ==
    { [annotation |-> [video_file_path |-> <<"videos", "a.mp4">>, scenes |-> sa],
       result     |-> [video_file_path |-> <<"videos", "a.mp4">>, scenes |-> sr]] :
        sa \in SeqsUpTo(EvalTimedScenes, MaxTimedScenes),
        sr \in SeqsUpTo(EvalTimedScenes, MaxTimedScenes) }

EvaluateTimed ==
    /\ evaluator.pc = "idle"
    /\ \E in \in EvalTimedInputs :
          evaluator' = EvaluatorRun(in.annotation, in.result, 500)
    /\ UNCHANGED <<conv, parser, ssim, adaptive, extractor, aligner,
                 workflow, enhancer, llm>>

EvalTimedNext == EvaluateTimed

SpecEvalTimed == EvalInit /\ [][EvalTimedNext]_vars

\* time_str is written HH:MM:SS.mmm
IsHhMmSsMmm(time_str) ==
    /\ Len(time_str) = 12
    /\ \A i \in 1..12 :
          IF i \in {3, 6} THEN time_str[i] = ":"
          ELSE IF i = 9 THEN time_str[i] = "."
          ELSE IsDigit(time_str[i])

EvalTimeStrings ==
    UNION { {evaluator.annotation.scenes[i].start_time,
             evaluator.annotation.scenes[i].end_time} :
            i \in 1..Len(evaluator.annotation.scenes) }
    \cup
    UNION { {evaluator.result.scenes[i].start_time,
             evaluator.result.scenes[i].end_time} :
            i \in 1..Len(evaluator.result.scenes) }

\* C11: when a start_time or end_time of an annotated or detected scene is
\* not written HH:MM:SS.mmm, the evaluation raises an error that names such
\* a value and the expected format, and returns no metrics.
C11_MalformedTimeFails ==
    (evaluator.pc \in {"raised", "returned"}
     /\ \E time_str \in EvalTimeStrings : ~IsHhMmSsMmm(time_str))
        => /\ evaluator.pc = "raised"
           /\ evaluator.error = "invalid time format"
           /\ evaluator.offender \in EvalTimeStrings
           /\ ~IsHhMmSsMmm(evaluator.offender)
           /\ evaluator.expected = "HH:MM:SS.mmm"
           /\ "evaluation" \notin DOMAIN evaluator

\* Supporting C11: when the first annotated scene and the first detected
\* scene exist and one of their four strings has a part missing, the
\* evaluation raises, names one of those strings and the expected format,
\* and returns no metrics.
C11_FirstPairRejected ==
    (/\ evaluator.pc \in {"raised", "returned"}
     /\ evaluator.annotation.scenes # <<>>
     /\ evaluator.result.scenes # <<>>
     /\ {evaluator.annotation.scenes[1].start_time,
         evaluator.annotation.scenes[1].end_time,
         evaluator.result.scenes[1].start_time,
         evaluator.result.scenes[1].end_time}
        \cap {TimeNoFraction, TimeUnderscores, TimeEmpty} # {})
        => /\ evaluator.pc = "raised"
           /\ evaluator.error = "invalid time format"
           /\ evaluator.offender \in {TimeNoFraction, TimeUnderscores, TimeEmpty}
           /\ evaluator.expected = "HH:MM:SS.mmm"
           /\ evaluator.compared = 1
           /\ "evaluation" \notin DOMAIN evaluator

(***************************************************************************)
(* The evaluator's loops.                                                  *)
(***************************************************************************)
\* The detected scenes an annotated scene is compared with: up to and
\* including the first one within the tolerance.
EvalScanLength(annotated_scene) ==
    LET hits == { j \in 1..Len(evaluator.result.scenes) :
                     EvalWithin(annotated_scene, evaluator.result.scenes[j],
                                evaluator.tolerance_ms) }
    IN  IF hits = {} THEN Len(evaluator.result.scenes)
        ELSE CHOOSE j \in hits : \A k \in hits : j <= k

RECURSIVE SumScanLengths(_)
SumScanLengths(i) ==
    IF i = 0 THEN 0
    ELSE EvalScanLength(evaluator.annotation.scenes[i]) + SumScanLengths(i - 1)

\* C12: each annotated scene is compared with the detected scenes in order
\* up to its first match and counts at most once, so the matched count is at
\* most the number of annotated scenes, recall lies in [0, 1] and accuracy in
\* [0, 100].
C12_GreedyMatch ==
    evaluator.pc = "returned" =>
        /\ evaluator.compared = SumScanLengths(Len(evaluator.annotation.scenes))
        /\ evaluator.correct_count <= Len(evaluator.annotation.scenes)
        /\ evaluator.correct_count >= 0
        /\ LET rec == evaluator.evaluation.recall
               acc == evaluator.evaluation.accuracy
           IN  /\ rec[2] > 0 /\ 0 <= rec[1] /\ rec[1] <= rec[2]
               /\ acc[2] > 0 /\ 0 <= acc[1] /\ acc[1] <= 100 * acc[2]

\* C12 happens: two annotated scenes match the first of two detected scenes,
\* which is the only one either is compared with.
C12_Witness ==
    /\ evaluator.pc = "returned"
    /\ Len(evaluator.annotation.scenes) = 2
    /\ Len(evaluator.result.scenes) = 2
    /\ evaluator.correct_count = 2
    /\ evaluator.compared = 2
    /\ evaluator.evaluation.precision = <<1, 1>>
    /\ evaluator.evaluation.recall = <<1, 1>>

(***************************************************************************)
(* The extractor alone, and the extractor or the structural-similarity     *)
(* detector on one video.                                                  *)
(***************************************************************************)
ExtractInit ==
    /\ extractor = [pc |-> "idle"]
    /\ conv = Off /\ parser = Off /\ evaluator = Off /\ ssim = Off
    /\ adaptive = Off /\ aligner = Off
    /\ workflow = Off /\ enhancer = Off /\ llm = Off

ExtractNext ==
    ExtractorRun \/ ExtractorOpenFails \/ ExtractorFrame \/ ExtractorEndOfStream

SpecExtract == ExtractInit /\ [][ExtractNext]_vars

VideoInit ==
    /\ \E reader \in {"extractor", "ssim"} :
          /\ extractor = IF reader = "extractor" THEN [pc |-> "idle"] ELSE Off
          /\ ssim = IF reader = "ssim" THEN [pc |-> "idle"] ELSE Off
    /\ conv = Off /\ parser = Off /\ evaluator = Off
    /\ adaptive = Off /\ aligner = Off
    /\ workflow = Off /\ enhancer = Off /\ llm = Off

VideoNext ==
    \/ ExtractorRun \/ ExtractorOpenFails \/ ExtractorFrame \/ ExtractorEndOfStream
    \/ SsimRun \/ SsimOpenFails \/ SsimFrame \/ SsimEndOfStream

SpecVideo == VideoInit /\ [][VideoNext]_vars

\* C13: the aligner reads back from each file name what the extractor put
\* in: the frame's ordinal as index, and the start and end times cut to
\* whole milliseconds; converting a formatted time gives the time's whole
\* milliseconds.
C13_FilenameRoundTrip ==
    aligner.pc = "returned"
        => /\ Len(AlignerFrames) = Len(extractor.saved)
           /\ \A k \in 1..Len(extractor.saved) :
                 /\ AlignerFrames[k].index = extractor.saved[k].frame_number
                 /\ AlignerFrames[k].starts_at_ms
                      = extractor.saved[k].start_time_us \div 1000
                 /\ (IF k < Len(AlignerFrames) THEN AlignerFrames[k].ends_at_ms
                     ELSE aligner.original_end_ms)
                      = extractor.saved[k].end_time_us \div 1000
                 /\ convert_timestamp_to_ms(
                        FormatTime(extractor.saved[k].end_time_us, "underscore"))
                      = Returned(extractor.saved[k].end_time_us \div 1000)

\* C13 happens: the aligner has read the names of three frames, one of them
\* with times that are not whole milliseconds.
C13_Witness ==
    /\ aligner.pc = "returned"
    /\ Len(extractor.saved) = 3
    /\ AlignerFrames[3].index = 2
    /\ extractor.saved[2].start_time_us % 1000 # 0
    /\ extractor.saved[2].end_time_us % 1000 # 0
    /\ AlignerFrames[2].ends_at_ms * 1000 < extractor.saved[2].end_time_us

\* The start and the end time written in a frame's file name.
EmbeddedStart(file_name) == SubSeq(file_name, 12, 23)

EmbeddedEnd(file_name) == SubSeq(file_name, 25, 36)

\* C14: the frames saved by an extractor run follow one another in time:
\* the first starts at 0, every later one starts where the one saved before
\* it ends, also as written in the file names, each ends at the time the
\* decoder reported for it, and the ordinals are 0, 1, 2, ... in the order
\* of saving.
C14_SavedFramesContiguous ==
    extractor.pc \in {"loop", "returned"}
        => LET saved == extractor.saved
           IN  /\ Len(saved) = extractor.saved_count
               /\ Cardinality(extractor.files) = Len(saved)
               /\ \A k \in 1..Len(saved) :
                     /\ saved[k].frame_number = k - 1
                     /\ saved[k].file_name \in extractor.files
                     /\ saved[k].start_time_us
                          = (IF k = 1 THEN 0 ELSE saved[k - 1].end_time_us)
                     /\ EmbeddedStart(saved[k].file_name)
                          = (IF k = 1 THEN FormatTime(0, "underscore")
                             ELSE EmbeddedEnd(saved[k - 1].file_name))
                     /\ saved[k].start_time_us <= saved[k].end_time_us
                     /\ \E n \in 1..extractor.frame_count :
                           /\ n % extractor.frame_interval = 0
                           /\ saved[k].end_time_us = PosUsec(extractor.video, n)
                     /\ k > 1 => saved[k - 1].end_time_us < saved[k].end_time_us

\* C14 happens: three frames are saved, with sampled frames that were not
\* saved in between.
C14_Witness ==
    /\ extractor.pc = "returned"
    /\ Len(extractor.saved) = 3
    /\ extractor.frame_interval = 1
    /\ extractor.frame_count = 6
    /\ extractor.saved[3].start_time_us = extractor.saved[2].end_time_us
    /\ extractor.saved[2].end_time_us > 0

\* C15: in an aligner output every frame but the last starts strictly
\* before it ends.
C15_FramesNotEmpty ==
    aligner.pc = "returned"
        => \A k \in 1..(Len(AlignerFrames) - 1) :
              AlignerFrames[k].starts_at_ms < AlignerFrames[k].ends_at_ms

\* Supporting C15: every frame but the first and the last starts strictly
\* before it ends, and the first does not end before it starts.
C15_LaterFramesNotEmpty ==
    aligner.pc = "returned"
        => \A k \in 1..(Len(AlignerFrames) - 1) :
              IF k = 1 THEN AlignerFrames[k].starts_at_ms <= AlignerFrames[k].ends_at_ms
              ELSE AlignerFrames[k].starts_at_ms < AlignerFrames[k].ends_at_ms

\* C16: a run of the extractor or of the structural-similarity detector
\* that has ended, by returning or by raising, has released the video.
C16_DecoderReleased ==
    /\ extractor.pc \in {"returned", "raised"} => extractor.released
    /\ ssim.pc \in {"returned", "raised"} => ssim.released

\* Supporting C16: a run that ended because video.read() gave no frame has
\* released the video.
C16_ReleasedOnReturn ==
    /\ extractor.pc = "returned" => extractor.released
    /\ ssim.pc = "returned" => ssim.released

\* C17: a run in which a frame could not be decoded does not return what it
\* had found before: the detector gives no result holding scenes, and the
\* extractor leaves no saved frame.
C17_PartialResultsDiscarded ==
    /\ ~(/\ ssim.pc = "returned"
         /\ ssim.no_frame = "decode error"
         /\ ssim.result.scenes # <<>>)
    /\ ~(/\ extractor.pc = "returned"
         /\ extractor.no_frame = "decode error"
         /\ extractor.files # {})

\* C19: the result a detector returns carries the values the run worked
\* with: the minimum scene length in seconds and in frames (the frame count
\* of the minimum-length guard), the threshold, and as scene_count the
\* number of scenes in the list.
C19_ResultEchoesConfiguration ==
    /\ ssim.pc = "returned" =>
         /\ ssim.result.min_scene_length_secs = ssim.min_scene_length_secs
         /\ ssim.result.min_scene_length_frames = ssim.min_scene_length_frames
         /\ ssim.result.adaptive_threshold = ssim.threshold
         /\ ssim.result.scene_count = Len(ssim.result.scenes)
    /\ adaptive.pc = "returned" =>
         /\ adaptive.result.min_scene_length_frames2 = adaptive.detector.min_scene_len2
         /\ adaptive.result.min_scene_length_secs * adaptive.fps2
              = adaptive.detector.min_scene_len2
         /\ adaptive.result.adaptive_threshold = adaptive.detector.adaptive_threshold
         /\ adaptive.result.scene_count = Len(adaptive.result.scenes)

\* Supporting C19: all of that but the frame count in the result of the
\* structural-similarity detector, which is 0.
C19_EchoExceptSsimFrames ==
    /\ ssim.pc = "returned" =>
         /\ ssim.result.min_scene_length_secs = ssim.min_scene_length_secs
         /\ ssim.result.min_scene_length_frames = 0
         /\ ssim.result.adaptive_threshold = ssim.threshold
         /\ ssim.result.scene_count = Len(ssim.result.scenes)
    /\ adaptive.pc = "returned" =>
         /\ adaptive.result.min_scene_length_frames2 = adaptive.detector.min_scene_len2
         /\ adaptive.result.min_scene_length_secs * adaptive.fps2
              = adaptive.detector.min_scene_len2
         /\ adaptive.result.adaptive_threshold = adaptive.detector.adaptive_threshold
         /\ adaptive.result.scene_count = Len(adaptive.result.scenes)

(***************************************************************************)
(* tools/detect_scenes.py: run_algorithm, run again and again on one video *)
(* directory; the variable adaptive holds the state of the tool: the files *)
(* of the directory and the runs made.                                     *)
(***************************************************************************)
MaxToolRuns == 2

VideoDir == <<"data", "downloads", "4gcGkFAG7OA">>

\* video_dir / "scene-detection-result.json"
ResultFilePath(video_dir) == Append(video_dir, "scene-detection-result.json")

\* result_file_path.write_text(...)
WriteText(files, path, text) ==
    [q \in DOMAIN files \cup {path} |-> IF q = path THEN text ELSE files[q]]

NoFiles == [q \in {} |-> <<>>]

ToolInit ==
    /\ \E fps2 \in FpsHalves, mp4_count \in {0, 1, 2} :
          adaptive = [pc |-> "tool", fps2 |-> fps2, mp4_count |-> mp4_count,
                      files |-> NoFiles, runs |-> <<>>, last |-> "none"]
    /\ conv = Off /\ parser = Off /\ evaluator = Off /\ ssim = Off
    /\ extractor = Off /\ aligner = Off
    /\ workflow = Off /\ enhancer = Off /\ llm = Off

\* run_algorithm with the values of min_scene_length_secs (l.216) and
\* adaptive_threshold (l.224) as written for this run: it returns early
\* unless the directory holds one video, raises when the result does not
\* validate, and else writes the result.
RunAlgorithmOn(tool, min_scene_length_secs, adaptive_threshold, scene_list) ==
    LET min_scene_length_frames2 == min_scene_length_secs * tool.fps2
        result == [scene_count |-> Len(scene_list),
                   min_scene_length_secs |-> min_scene_length_secs,
                   min_scene_length_frames2 |-> min_scene_length_frames2,
                   adaptive_threshold |-> adaptive_threshold,
                   min_content_val |-> 5,
                   scenes |-> [i \in 1..Len(scene_list) |->
                                 [index |-> i - 1,
                                  start_frame |-> scene_list[i].start_frame,
                                  end_frame |-> scene_list[i].end_frame]]]
        path == ResultFilePath(VideoDir)
    IN  IF tool.mp4_count # 1 THEN [tool EXCEPT !.last = "no single video"]
        ELSE IF ~IsWholeFrames(min_scene_length_frames2)
        THEN [tool EXCEPT !.last = "ValidationError"]
        ELSE [tool EXCEPT !.files = WriteText(@, path, result),
                          !.runs = Append(@, [path |-> path, result |-> result]),
                          !.last = "written"]

ToolRunAlgorithm ==
    /\ adaptive.pc = "tool"
    /\ Len(adaptive.runs) < MaxToolRuns
    /\ \E min_scene_length_secs \in MinSceneLengthSecs,
          adaptive_threshold \in AdaptiveThresholds :
          \E scene_list \in LibraryDetect(min_scene_length_secs * adaptive.fps2) :
             adaptive' = RunAlgorithmOn(adaptive, min_scene_length_secs,
                                        adaptive_threshold, scene_list)
    /\ UNCHANGED <<conv, parser, evaluator, ssim, extractor, aligner,
                 workflow, enhancer, llm>>

ToolNext == ToolRunAlgorithm

SpecTool == ToolInit /\ [][ToolNext]_vars

SameParameters(r1, r2) ==
    /\ r1.min_scene_length_secs = r2.min_scene_length_secs
    /\ r1.adaptive_threshold = r2.adaptive_threshold

\* C18: two runs on one video with different thresholds or minimum lengths
\* write to different places, and the result of the earlier run stays as it
\* was written.
C18_RunsDoNotCollide ==
    adaptive.pc = "tool"
        => \A i, j \in 1..Len(adaptive.runs) :
              (i < j /\ ~SameParameters(adaptive.runs[i].result,
                                        adaptive.runs[j].result))
                 => /\ adaptive.runs[i].path # adaptive.runs[j].path
                    /\ adaptive.files[adaptive.runs[i].path] = adaptive.runs[i].result

\* Supporting C18: the file of a run holds the result of the last run made.
C18_LastRunPersisted ==
    (adaptive.pc = "tool" /\ adaptive.runs # <<>>)
        => adaptive.files[adaptive.runs[Len(adaptive.runs)].path]
             = adaptive.runs[Len(adaptive.runs)].result

(***************************************************************************)
(* The extractor's choice of frames.                                       *)
(***************************************************************************)
\* A pass of the extractor's loop that went through: a frame was read and
\* the loop goes on.
ExtractorPass ==
    /\ extractor.pc = "loop"
    /\ extractor'.pc = "loop"
    /\ extractor'.frame_count = extractor.frame_count + 1

ExtractorSampled == extractor'.frame_count % extractor.frame_interval = 0

ExtractorKept ==
    /\ extractor'.saved_count = extractor.saved_count + 1
    /\ extractor'.files # extractor.files

ExtractorNotKept ==
    /\ extractor'.saved_count = extractor.saved_count
    /\ extractor'.files = extractor.files

\* C20: a sampled frame is saved exactly when no frame was saved before or
\* its structural similarity to the last saved frame is below the
\* threshold; the frame compared with becomes the frame read when that is
\* saved and stays as it is otherwise.
C20_KeepIfDiffersFromLastKept ==
    [][ ExtractorPass =>
          /\ ExtractorKept \/ ExtractorNotKept
          /\ ExtractorKept <=>
                /\ ExtractorSampled
                /\ \/ extractor.saved_count = 0
                   \/ StructuralSimilarityPct(extractor.prev_frame[1],
                                              extractor'.frame[1])
                        < extractor.threshold
          /\ extractor'.prev_frame = IF ExtractorKept THEN extractor'.frame
                                     ELSE extractor.prev_frame
          /\ (extractor.saved_count = 0) <=> (extractor.prev_frame = NoFrame) ]_vars

\* C20 happens: at threshold 0.7 the first frame is saved, the second,
\* sampled and at most as far from it as a similarity of 0.7, is not, and the
\* third, which differs enough from the first, is.
C20_Witness ==
    /\ extractor.pc = "loop"
    /\ extractor.threshold = 70
    /\ extractor.frame_interval = 1
    /\ extractor.frame_count = 3
    /\ extractor.saved_count = 2
    /\ extractor.saved[1].end_time_us = PosUsec(extractor.video, 1)
    /\ extractor.saved[2].end_time_us = PosUsec(extractor.video, 3)
    /\ extractor.prev_frame = extractor.frame

(***************************************************************************)
(* The extractor's stride.                                                 *)
(***************************************************************************)
\* round(n / d) as Python rounds: to the nearest whole number, a half to the
\* even one.
RoundRatio(n, d) ==
    LET q == n \div d
        r == n % d
    IN  IF 2 * r < d THEN q
        ELSE IF 2 * r > d THEN q + 1
        ELSE IF q % 2 = 0 THEN q ELSE q + 1

\* C21: the extractor's stride is round(fps * sample_interval_secs), and the
\* frames considered for keeping are the decoded frames whose ordinal is a
\* multiple of it.
C21_StrideRounded ==
    extractor.pc = "loop"
        => extractor.frame_interval
             = RoundRatio(extractor.video.fps2 * extractor.sample_interval2, 4)

\* Supporting C21: the stride is fps * sample_interval_secs cut to a whole
\* number, and a frame is saved only at an ordinal that is a multiple of it.
C21_StrideTruncated ==
    extractor.pc = "loop"
        => /\ 4 * extractor.frame_interval
                <= extractor.video.fps2 * extractor.sample_interval2
           /\ 4 * (extractor.frame_interval + 1)
                > extractor.video.fps2 * extractor.sample_interval2
           /\ \A k \in 1..Len(extractor.saved) :
                 \E n \in 1..extractor.frame_count :
                    /\ n % extractor.frame_interval = 0
                    /\ extractor.saved[k].end_time_us = PosUsec(extractor.video, n)

(***************************************************************************)
(* The caption parser's use of the cue start.                              *)
(***************************************************************************)
ParsedCaptions == parser.file.captions

\* The places in the parsed transcript of the phrases that start at the
\* start of cue c.
PhrasesAtCueStart(c) ==
    { n \in 1..Len(parser.transcript.phrases) :
        parser.transcript.phrases[n].start_time_ms
          = convert_timestamp_to_ms(ParsedCaptions[c].start).value }

\* The phrases a line with a tag stands for: one for each timestamp tag, and
\* one for text in front of the first tag.
TaggedLinePhraseCount(line) ==
    Cardinality({i \in 1..Len(line) : line[i].kind = "time"})
    + (IF line[1].kind = "text" THEN 1 ELSE 0)

RECURSIVE SumOver(_, _)
SumOver(counts, n) == IF n = 0 THEN 0 ELSE counts[n] + SumOver(counts, n - 1)

CaptionPhraseCount(caption) ==
    SumOver([k \in 1..Len(caption.lines) |->
               IF HasCueTags(caption.lines[k])
               THEN TaggedLinePhraseCount(caption.lines[k]) ELSE 0],
            Len(caption.lines))

\* C22: the parser drops the lines without a timestamp tag and puts the cue
\* start only before the first line of a cue that holds a tag, so at most
\* one phrase of a cue starts at the cue start.
C22_CueStartOncePerCue ==
    parser.pc = "returned"
        => \A c \in 1..Len(ParsedCaptions) : Cardinality(PhrasesAtCueStart(c)) <= 1

\* Supporting C22: the transcript holds phrases of the lines with a tag
\* only, one for each tag and one for text in front of the first tag.
C22_UntaggedLinesDiscarded ==
    parser.pc = "returned"
        => Len(parser.transcript.phrases)
             = SumOver([c \in 1..Len(ParsedCaptions) |->
                          CaptionPhraseCount(ParsedCaptions[c])],
                       Len(ParsedCaptions))

(***************************************************************************)
(* The scenes of the structural-similarity detector.                       *)
(***************************************************************************)
SsimScenes == ssim.scenes

\* C23: the detector's scenes are in order, touch and do not overlap: the
\* first starts at frame 0 and time 00:00:00.000, each later scene starts at
\* the frame and the time where the scene before it ends, every scene ends
\* after it starts, and the scene at place i of the list has index i.
C23_ScenesContiguous ==
    ssim.pc \in {"loop", "returned"}
        => /\ \A n \in 1..Len(SsimScenes) :
                /\ SsimScenes[n].index = n - 1
                /\ SsimScenes[n].start_frame < SsimScenes[n].end_frame
           /\ Len(SsimScenes) >= 1
                => /\ SsimScenes[1].start_frame = 0
                   /\ SsimScenes[1].start_time = FormatTime(0, "dot")
           /\ \A n \in 1..(Len(SsimScenes) - 1) :
                /\ SsimScenes[n + 1].start_frame = SsimScenes[n].end_frame
                /\ SsimScenes[n + 1].start_time = SsimScenes[n].end_time

\* Two scenes have been emitted and the detector has returned.
C23_Witness ==
    /\ ssim.pc = "returned"
    /\ Len(ssim.result.scenes) >= 2
    /\ ssim.result.scenes[2].start_frame > 0

\* The pass just taken read a frame and the frame was a sample.
SsimSampled ==
    /\ ssim.pc = "loop"
    /\ ssim'.pc = "loop"
    /\ ssim'.frame_count = ssim.frame_count + 1
    /\ ssim.frame_interval # 0
    /\ ssim'.frame_count % ssim.frame_interval = 0

\* The pass just taken read a frame and the frame was not a sample.
SsimNotSampled ==
    /\ ssim.pc = "loop"
    /\ ssim'.pc = "loop"
    /\ ssim'.frame_count = ssim.frame_count + 1
    /\ ssim.frame_interval # 0
    /\ ssim'.frame_count % ssim.frame_interval # 0

\* C24: after every pass over a sampled frame, whichever branch it took, the
\* last-compared sample is the frame just read, and a pass over a frame that
\* is not a sample leaves it alone; so a comparison is always against the
\* sample immediately before the current one.
C24_PrevFrameAdvances ==
    [][/\ SsimSampled => ssim'.prev_frame = ssim'.frame
       /\ SsimNotSampled => ssim'.prev_frame = ssim.prev_frame]_vars

\* A sample after the first was skipped by the minimum-length guard and
\* became the last-compared sample.
C24_Witness ==
    /\ ssim.pc = "loop"
    /\ ssim.frame_interval > 0
    /\ ssim.frame_count >= 2 * ssim.frame_interval
    /\ ssim.frame_count % ssim.frame_interval = 0
    /\ SsimTooShort(ssim.frame_count, ssim.scene_start_frame,
                    ssim.min_scene_length_frames)
    /\ ssim.prev_frame = ssim.frame

\* C26: every scene the detector returns ends at an accepted boundary, at or
\* before the last one; the span from the last accepted boundary to the end
\* of the stream is not among the scenes, and when no boundary was accepted
\* the scene list is empty and scene_count is 0.
C26_TailNotEmitted ==
    ssim.pc = "returned"
        => /\ ssim.result.scene_count = Len(ssim.result.scenes)
           /\ \A n \in 1..Len(ssim.result.scenes) :
                /\ ssim.result.scenes[n].end_frame <= ssim.scene_start_frame
                /\ ssim.result.scenes[n].start_frame < ssim.scene_start_frame
           /\ Len(ssim.result.scenes) >= 1
                => ssim.result.scenes[Len(ssim.result.scenes)].end_frame
                     = ssim.scene_start_frame
           /\ ssim.scene_start_frame = 0
                => /\ ssim.result.scenes = <<>>
                   /\ ssim.result.scene_count = 0

\* The stream ended some frames after the last accepted boundary.
C26_Witness ==
    /\ ssim.pc = "returned"
    /\ Len(ssim.result.scenes) >= 1
    /\ ssim.frame_count > ssim.scene_start_frame + 1

\* No boundary was accepted in a video with several samples.
C26_NoBoundaryReached ==
    /\ ssim.pc = "returned"
    /\ ssim.frame_count >= 3 * ssim.frame_interval
    /\ ssim.frame_interval > 0
    /\ ssim.result.scene_count = 0

(***************************************************************************)
(* Detected scenes that are the match of several annotated scenes.         *)
(***************************************************************************)
\* The place of the first detected scene that annotated scene i matches, 0
\* when it matches none.
EvalFirstMatch(i) ==
    LET hits == { j \in 1..Len(evaluator.result.scenes) :
                     EvalWithin(evaluator.annotation.scenes[i],
                                evaluator.result.scenes[j], evaluator.tolerance_ms) }
    IN  IF hits = {} THEN 0 ELSE CHOOSE j \in hits : \A k \in hits : j <= k

\* The annotated scenes whose match is detected scene j.
EvalMatchedBy(j) ==
    { i \in 1..Len(evaluator.annotation.scenes) : EvalFirstMatch(i) = j }

RECURSIVE SumMatchedBy(_)
SumMatchedBy(j) ==
    IF j = 0 THEN 0 ELSE Cardinality(EvalMatchedBy(j)) + SumMatchedBy(j - 1)

\* C25: a matched detected scene stays available to the annotated scenes
\* after it: every annotated scene is counted for the first detected scene
\* it matches, however many annotated scenes that detected scene has
\* matched already, and precision is that count over the number of detected
\* scenes, also when the count is the greater.
C25_NoDoubleCountingGuard ==
    evaluator.pc = "returned" =>
        /\ evaluator.correct_count = SumMatchedBy(Len(evaluator.result.scenes))
        /\ Len(evaluator.result.scenes) > 0
             => evaluator.evaluation.precision[1] * Len(evaluator.result.scenes)
                  = evaluator.correct_count * evaluator.evaluation.precision[2]

\* One detected scene is the match of two annotated scenes: the matched
\* count 2 is more than the one detected scene and precision is 2.
C25_Witness ==
    /\ evaluator.pc = "returned"
    /\ Len(evaluator.annotation.scenes) = 2
    /\ Len(evaluator.result.scenes) = 1
    /\ Cardinality(EvalMatchedBy(1)) = 2
    /\ evaluator.correct_count = 2
    /\ evaluator.correct_count > Len(evaluator.result.scenes)
    /\ evaluator.evaluation.precision = <<2, 1>>

(***************************************************************************)
(* faas/azure/video_processor.py: the process_video workflow.  An optional *)
(* value is a sequence of no element (None) or of one.                     *)
(***************************************************************************)
None == <<>>

Some(value) == <<value>>

\* The video_id route parameter: missing, blank but for one letter, too
\* short, or an id.
RouteVideoIds ==
    {None,
     Some(<<" ", " ", " ", " ", " ", "x">>),
     Some(<<"a", "b", "c", "d">>),
     Some(<<"a", "b", "c", "d", "e">>),
     Some(<<"O", "n", "f", "1", "U">>),
     Some(<<" ", "d", "Q", "w", "4", "w">>)}

\* not video_id or len(video_id.strip()) < 5
IsInvalidVideoId(video_id) ==
    \/ video_id = None
    \/ Len(video_id[1]) = 0
    \/ Len(StrStrip(video_id[1])) < 5

\* The files yt-dlp leaves in the output directory, by name and extension.
DownloadableFiles ==
    {[name |-> "v", ext |-> ".mp4"], [name |-> "w", ext |-> ".mp4"],
     [name |-> "x", ext |-> ".MP4"], [name |-> "v", ext |-> ".m4a"],
     [name |-> "v", ext |-> ".vtt"]}

\* path.lower() on the extension.
LowerExt(ext) == IF ext = ".MP4" THEN ".mp4" ELSE ext

\* YouTubeVideoDownloadProcessor._find_all_file_paths
FindAllFilePaths(uploaded_paths, extension) ==
    { path \in uploaded_paths : LowerExt(path.ext) = LowerExt(extension) }

\* YouTubeVideoDownloadProcessor._find_single_file_path
FindSingleFilePath(uploaded_paths, extension) ==
    IF Cardinality(FindAllFilePaths(uploaded_paths, extension)) = 1
    THEN Some(Only(FindAllFilePaths(uploaded_paths, extension)))
    ELSE None

\* The non-zero exit codes of the downloader.
DownloadFailureCodes == {1, 2}

\* YouTubeVideoDownloadProcessorResult as YouTubeVideoDownloadProcessor.run
\* returns it: the downloader failed, it left no file, or the files were
\* uploaded and recorded in video_info.  These four are all its fields.
YouTubeVideoDownloadProcessorResults(video_id) ==
    { [video_id |-> video_id, download_result |-> code,
       error_message |-> Some("Failed to download YouTube files from url."),
       video_info |-> [artifact_paths |-> {}, video_file_path |-> None]] :
         code \in DownloadFailureCodes }
    \cup { [video_id |-> video_id, download_result |-> 0,
            error_message |-> Some("No files found after download."),
            video_info |-> [artifact_paths |-> {}, video_file_path |-> None]] }
    \cup { [video_id |-> video_id, download_result |-> 0,
            error_message |-> None,
            video_info |-> [artifact_paths |-> uploaded_paths,
                            video_file_path |->
                                FindSingleFilePath(uploaded_paths, ".mp4")]] :
             uploaded_paths \in (SUBSET DownloadableFiles) \ {{}} }

\* YouTubeVideoDownloadProcessorResult.failed
Failed(result) == result.error_message # None

ProcessVideoOutput(video_id, stage, error_message) ==
    [video_id |-> video_id, stage |-> stage, error_message |-> error_message]

\* process_video from the result of download_youtube_video on: the failure
\* is returned; otherwise step 4 reads saved_file_paths, which is not a field
\* of the result, and the orchestration ends with AttributeError before the
\* mp4 check and before extract_frames.
ProcessVideoAfterDownload(w, result) ==
    IF Failed(result)
    THEN [w EXCEPT !.pc = "returned"]
         @@ [download_youtube_video_result |-> result,
             output |-> ProcessVideoOutput(
                          w.input.video_id, "download_youtube_video",
                          Some(<<"Failed to download YouTube video: ",
                                 result.error_message[1]>>))]
    ELSE [w EXCEPT !.pc = "raised"]
         @@ [download_youtube_video_result |-> result,
             error |-> "AttributeError", attribute |-> "saved_file_paths"]

WorkflowInit ==
    /\ workflow = [pc |-> "idle"]
    /\ conv = Off /\ parser = Off /\ evaluator = Off /\ ssim = Off
    /\ adaptive = Off /\ extractor = Off /\ aligner = Off
    /\ enhancer = Off /\ llm = Off

\* start_workflow: the HTTP request is refused with 400 or 500, or an
\* instance of process_video is started with the video id as its input.
StartWorkflow ==
    /\ workflow.pc = "idle"
    /\ \E video_id \in RouteVideoIds, has_connection_string \in BOOLEAN :
          workflow' =
            IF IsInvalidVideoId(video_id)
            THEN [pc |-> "refused", status_code |-> 400, video_id |-> video_id]
            ELSE IF ~has_connection_string
            THEN [pc |-> "refused", status_code |-> 500, video_id |-> video_id]
            ELSE [pc |-> "started", status_code |-> 202,
                  input |-> [video_id |-> video_id[1]],
                  activities |-> <<>>]
    /\ UNCHANGED <<conv, parser, evaluator, ssim, adaptive, extractor, aligner,
                   enhancer, llm>>

\* process_video, steps 1 and 2: the input is validated and the
\* download_youtube_video activity is called.
ProcessVideoCallsDownload ==
    /\ workflow.pc = "started"
    /\ workflow' = [workflow EXCEPT !.pc = "download_youtube_video",
                                    !.activities = Append(@, "download_youtube_video")]
    /\ UNCHANGED <<conv, parser, evaluator, ssim, adaptive, extractor, aligner,
                   enhancer, llm>>

\* The download_youtube_video activity returns its result and process_video
\* goes on from step 3.
DownloadReturns ==
    /\ workflow.pc = "download_youtube_video"
    /\ \E result \in YouTubeVideoDownloadProcessorResults(workflow.input.video_id) :
          workflow' = ProcessVideoAfterDownload(workflow, result)
    /\ UNCHANGED <<conv, parser, evaluator, ssim, adaptive, extractor, aligner,
                   enhancer, llm>>

\* The download_youtube_video activity fails with an exception, which the
\* orchestration does not catch.
DownloadRaises ==
    /\ workflow.pc = "download_youtube_video"
    /\ workflow' = [workflow EXCEPT !.pc = "raised"]
                   @@ [error |-> "activity failed",
                       attribute |-> "download_youtube_video"]
    /\ UNCHANGED <<conv, parser, evaluator, ssim, adaptive, extractor, aligner,
                   enhancer, llm>>

WorkflowNext ==
    StartWorkflow \/ ProcessVideoCallsDownload \/ DownloadReturns \/ DownloadRaises

SpecWorkflow == WorkflowInit /\ [][WorkflowNext]_vars

\* The download has returned a result that did not fail.
WorkflowDownloadSucceeded ==
    /\ workflow.pc \in {"returned", "raised", "extract_frames"}
    /\ "download_youtube_video_result" \in DOMAIN workflow
    /\ ~Failed(workflow.download_youtube_video_result)

C27_OnlyDownloadFailureReturned ==
    /\ workflow.pc = "returned"
         => /\ workflow.output.stage = "download_youtube_video"
            /\ workflow.output.error_message # None
            /\ Failed(workflow.download_youtube_video_result)
    /\ workflow.pc \notin {"off", "idle", "refused"}
         => \A n \in 1..Len(workflow.activities) :
               workflow.activities[n] # "extract_frames"

(***************************************************************************)
(* enhancement.py: ProcessedTextRepository over a blob storage, and        *)
(* FrameContentEnhancer.run.  A ProcessedText is its index (the texts are  *)
(* not modelled); the list _processed_texts is the sequence of the indices *)
(* added.                                                                  *)
(***************************************************************************)
MaxAdds == 3

MaxBatchIndex == 2

MaxFramePhrases == 2

MaxEnhancerFrames == 2

BatchSizes == {1, 2}

\* ProcessedTextMetadata()
NewMetadata == [count |-> 0, indices |-> {}]

\* ProcessedTextRepository.__init__ over a storage.
NewRepository(storage) ==
    [processed_texts |-> <<>>, metadata |-> NewMetadata, storage |-> storage]

\* An empty blob storage: no meta-data.json and no data file.
EmptyStorage == [meta_data |-> None, data |-> {}]

\* ProcessedTextRepository._save_metadata
SaveMetadata(repo) == [repo EXCEPT !.storage.meta_data = Some(repo.metadata)]

\* set iteration over small non-negative ints: in increasing order.
RECURSIVE IndicesInOrder(_)
IndicesInOrder(indices) ==
    IF indices = {} THEN <<>>
    ELSE LET least == CHOOSE i \in indices : \A k \in indices : i <= k
         IN  <<least>> \o IndicesInOrder(indices \ {least})

\* ProcessedTextRepository.load on a new repository object.
RepositoryLoaded(storage) ==
    IF storage.meta_data = None THEN SaveMetadata(NewRepository(storage))
    ELSE [NewRepository(storage) EXCEPT
            !.metadata = storage.meta_data[1],
            !.processed_texts = IndicesInOrder(storage.meta_data[1].indices)]

\* ProcessedTextRepository.add
RepositoryAdded(repo, index) ==
    LET saved == [repo EXCEPT !.storage.data = @ \cup {index}]
        booked == [saved EXCEPT !.metadata.count = @ + 1,
                                !.metadata.indices = @ \cup {index}]
    IN  [SaveMetadata(booked) EXCEPT !.processed_texts = Append(@, index)]

\* ProcessedTextRepository.get_last_index
GetLastIndex(repo) ==
    IF repo.metadata.indices = {} THEN 0
    ELSE CHOOSE i \in repo.metadata.indices : \A k \in repo.metadata.indices : k <= i

\* The number of batches batched(iterable, n) yields: range(0, l, n).
BatchCount(l, n) == (l + n - 1) \div n

\* The frames given to run, each by the number of its phrases.
EnhancerFrames == SeqsUpTo(0..MaxFramePhrases, MaxEnhancerFrames)

RECURSIVE SumSeq(_)
SumSeq(numbers) ==
    IF numbers = <<>> THEN 0 ELSE Head(numbers) + SumSeq(Tail(numbers))

\* FrameContentEnhancer.run.  batched() is a generator, so the first batch
\* that is not skipped ends the run at len(batched_phrases) in the print
\* that announces it, before the language model is called and before
\* anything is added; a run whose batches are all skipped returns.
EnhancerRunOn(repo, frames, batch_size) ==
    IF frames = <<>>
    THEN [pc |-> "raised", error |-> "ValueError", frames |-> frames,
          batch_size |-> batch_size]
    ELSE LET batches == BatchCount(SumSeq(frames), batch_size)
             last_processed_index == GetLastIndex(repo)
         IN  IF batches > last_processed_index
             THEN [pc |-> "raised", error |-> "TypeError", frames |-> frames,
                   batch_size |-> batch_size, batches |-> batches,
                   last_processed_index |-> last_processed_index,
                   stored_indices |-> repo.metadata.indices,
                   skipped |-> 0..(last_processed_index - 1),
                   index |-> last_processed_index]
             ELSE [pc |-> "returned", frames |-> frames,
                   batch_size |-> batch_size, batches |-> batches,
                   last_processed_index |-> last_processed_index,
                   stored_indices |-> repo.metadata.indices,
                   skipped |-> 0..(batches - 1)]

EnhancerInit ==
    /\ enhancer = [pc |-> "idle", repo |-> NewRepository(EmptyStorage),
                   adds |-> 0, run |-> [pc |-> "none"]]
    /\ conv = Off /\ parser = Off /\ evaluator = Off /\ ssim = Off
    /\ adaptive = Off /\ extractor = Off /\ aligner = Off
    /\ workflow = Off /\ llm = Off

\* A new process: a repository object is made over the storage and loaded.
RepositoryLoad ==
    /\ enhancer.pc = "idle"
    /\ enhancer' = [enhancer EXCEPT !.repo = RepositoryLoaded(enhancer.repo.storage)]
    /\ UNCHANGED <<conv, parser, evaluator, ssim, adaptive, extractor, aligner,
                   workflow, llm>>

\* A result is stored through the repository.
RepositoryAdd ==
    /\ enhancer.pc = "idle"
    /\ enhancer.adds < MaxAdds
    /\ \E index \in 0..MaxBatchIndex :
          enhancer' = [enhancer EXCEPT !.repo = RepositoryAdded(enhancer.repo, index),
                                       !.adds = @ + 1]
    /\ UNCHANGED <<conv, parser, evaluator, ssim, adaptive, extractor, aligner,
                   workflow, llm>>

\* FrameContentEnhancer.run over some frames, on the repository as it is.
EnhancerRun ==
    /\ enhancer.pc = "idle"
    /\ \E frames \in EnhancerFrames, batch_size \in BatchSizes :
          enhancer' = [enhancer EXCEPT
                         !.run = EnhancerRunOn(enhancer.repo, frames, batch_size)]
    /\ UNCHANGED <<conv, parser, evaluator, ssim, adaptive, extractor, aligner,
                   workflow, llm>>

EnhancerNext == RepositoryLoad \/ RepositoryAdd \/ EnhancerRun

SpecEnhancer == EnhancerInit /\ [][EnhancerNext]_vars

\* C28: a run against a repository that holds results skips every batch
\* that was already processed: the batch it goes on to process is not among
\* the stored indices, so no index is sent to the language model or added a
\* second time.
C28_ProcessedBatchesSkipped ==
    (enhancer.pc = "idle" /\ enhancer.run.pc = "raised"
       /\ enhancer.run.error = "TypeError")
        => enhancer.run.index \notin enhancer.run.stored_indices

\* Supporting C28: a run leaves the repository and its storage as they were.
C28_RunLeavesRepository ==
    [][enhancer.pc = "idle" /\ enhancer'.run # enhancer.run
         => enhancer'.repo = enhancer.repo]_vars

\* Supporting C28: the batches a run skips are those below the greatest
\* stored index; the batch with that index is the one it goes on to process.
C28_SkipsBelowLastIndex ==
    (enhancer.pc = "idle" /\ enhancer.run.pc \in {"raised", "returned"}
       /\ enhancer.run.frames # <<>>)
        => /\ \A index \in enhancer.run.stored_indices :
                index <= enhancer.run.last_processed_index
           /\ enhancer.run.stored_indices # {}
                => enhancer.run.last_processed_index \in enhancer.run.stored_indices
           /\ \A index \in enhancer.run.skipped :
                index < enhancer.run.last_processed_index
           /\ enhancer.run.pc = "raised"
                => enhancer.run.index = enhancer.run.last_processed_index

(***************************************************************************)
(* transcription/formatter_v2.py: TranscriptFormatter._fix_punctuation and *)
(* transcription/topics.py: TopicCreator._generate_topics: the loop that   *)
(* asks the language model again until a response holds the tags.          *)
(***************************************************************************)
\* range(5)
Tries == 5

\* sub occurs in text from 0-based position at on.
OccursAt(text, sub, at) ==
    /\ at + Len(sub) <= Len(text)
    /\ \A k \in 1..Len(sub) : text[at + k] = sub[k]

\* sub in text
Contains(text, sub) == \E at \in 0..Len(text) : OccursAt(text, sub, at)

\* text.find(sub): the lowest position, -1 when there is none.
Find(text, sub) ==
    IF ~Contains(text, sub) THEN -1
    ELSE CHOOSE at \in 0..Len(text) :
           /\ OccursAt(text, sub, at)
           /\ \A lower \in 0..(at - 1) : ~OccursAt(text, sub, lower)

\* text.rfind(sub): the highest position, -1 when there is none.
RFind(text, sub) ==
    IF ~Contains(text, sub) THEN -1
    ELSE CHOOSE at \in 0..Len(text) :
           /\ OccursAt(text, sub, at)
           /\ \A higher \in (at + 1)..Len(text) : ~OccursAt(text, sub, higher)

\* text[start_index:end_index] for indices that are not negative.
Slice(text, start_index, end_index) ==
    LET stop == IF end_index > Len(text) THEN Len(text) ELSE end_index
    IN  IF start_index >= stop THEN <<>> ELSE SubSeq(text, start_index + 1, stop)

IsQuote(char) == char \in {"\"", "'"}

\* The quote that may stand in front of the text and the one that may stand
\* behind it are cut off.
StripQuotes(text) ==
    LET headless == IF Len(text) > 0 /\ IsQuote(text[1]) THEN Tail(text) ELSE text
    IN  IF Len(headless) > 0 /\ IsQuote(headless[Len(headless)])
        THEN SubSeq(headless, 1, Len(headless) - 1) ELSE headless

\* The character U+0060, the grave accent of a Markdown code fence.
Backtick == "grave"

PunctuatedStartTag ==
    <<"<", "p", "u", "n", "c", "t", "u", "a", "t", "e", "d", "_", "t",
      "r", "a", "n", "s", "c", "r", "i", "p", "t", ">">>

PunctuatedEndTag ==
    <<"<", "/", "p", "u", "n", "c", "t", "u", "a", "t", "e", "d", "_",
      "t", "r", "a", "n", "s", "c", "r", "i", "p", "t", ">">>

JsonStartTag ==
    <<Backtick, Backtick, Backtick, "j", "s", "o", "n">>

JsonEndTag ==
    <<Backtick, Backtick, Backtick>>

\* A JSON text that LLMOutput accepts, and one it does not.
TopicsJson ==
    <<"{", "\"", "t", "o", "p", "i", "c", "s", "\"", ":", "[", "]", "}">>

NotTopicsJson ==
    <<"{", "}">>

StartTag(function) ==
    IF function = "_fix_punctuation" THEN PunctuatedStartTag ELSE JsonStartTag

EndTag(function) ==
    IF function = "_fix_punctuation" THEN PunctuatedEndTag ELSE JsonEndTag

\* What the language model may answer: a text without tags, with the start
\* tag only, with both tags around a text, around a quoted text, and with
\* the end tag in front of the start tag.
PunctuationResponses ==
    {<<"n", "o">>,
     PunctuatedStartTag \o <<"a", ".">>,
     PunctuatedStartTag \o <<" ", "a", ".", " ">> \o PunctuatedEndTag,
     PunctuatedStartTag \o <<"'", "a", ".", "'">> \o PunctuatedEndTag,
     PunctuatedEndTag \o PunctuatedStartTag}

\* What the language model may answer: a text without fences, JSON between
\* plain fences, the topics between the tags, other JSON between the tags,
\* and the topics behind the start tag with no fence closing them.
TopicsResponses ==
    {<<"n", "o">>,
     JsonEndTag \o TopicsJson \o JsonEndTag,
     JsonStartTag \o <<" ">> \o TopicsJson \o <<" ">> \o JsonEndTag,
     JsonStartTag \o NotTopicsJson \o JsonEndTag,
     JsonStartTag \o TopicsJson}

LlmResponses(function) ==
    IF function = "_fix_punctuation" THEN PunctuationResponses ELSE TopicsResponses

\* START_TAG in response_text and END_TAG in response_text
HasBothTags(function, response_text) ==
    /\ Contains(response_text, StartTag(function))
    /\ Contains(response_text, EndTag(function))

\* _fix_punctuation behind the loop: the text between the first start tag
\* and the first end tag, without the spaces and the quotes around it.
PunctuatedText(response_text) ==
    LET start_index == Find(response_text, PunctuatedStartTag) + Len(PunctuatedStartTag)
        end_index == Find(response_text, PunctuatedEndTag)
    IN  StripQuotes(StrStrip(Slice(response_text, start_index, end_index)))

\* _generate_topics behind the loop: the text between the last start tag and
\* the last end tag.
JsonText(response_text) ==
    LET start_index == RFind(response_text, JsonStartTag) + Len(JsonStartTag)
        end_index == RFind(response_text, JsonEndTag)
    IN  StrStrip(Slice(response_text, start_index, end_index))

\* The function behind its loop, with the response the loop ended on.
\* LLMOutput.model_validate_json raises ValidationError, a ValueError, for
\* a text that is not the JSON of an LLMOutput.
UseResponse(d, response_text) ==
    IF d.function = "_fix_punctuation"
    THEN [d EXCEPT !.pc = "returned"] @@ [value |-> PunctuatedText(response_text)]
    ELSE IF JsonText(response_text) = TopicsJson
    THEN [d EXCEPT !.pc = "returned"] @@ [value |-> [topics |-> <<>>]]
    ELSE [d EXCEPT !.pc = "raised"]
         @@ [error |-> "ValidationError", json_text |-> JsonText(response_text)]

\* One pass of for i in range(5): the model is asked and its response is
\* tested; the loop breaks on a response with the tags, and behind the last
\* pass without one the function raises ValueError.
LlmLoopBody(d, response_text) ==
    LET asked == [d EXCEPT !.i = @ + 1, !.responses = Append(@, response_text)]
    IN  IF HasBothTags(d.function, response_text)
        THEN UseResponse(asked, response_text)
        ELSE IF asked.i = Tries
        THEN [asked EXCEPT !.pc = "raised"] @@ [error |-> "ValueError"]
        ELSE asked

LlmInit ==
    /\ llm = [pc |-> "idle"]
    /\ conv = Off /\ parser = Off /\ evaluator = Off /\ ssim = Off
    /\ adaptive = Off /\ extractor = Off /\ aligner = Off
    /\ workflow = Off /\ enhancer = Off

\* One of the two functions is called.
LlmInvoke ==
    /\ llm.pc = "idle"
    /\ \E function \in {"_fix_punctuation", "_generate_topics"} :
          llm' = [pc |-> "loop", function |-> function, i |-> 0, responses |-> <<>>]
    /\ UNCHANGED <<conv, parser, evaluator, ssim, adaptive, extractor, aligner,
                   workflow, enhancer>>

LlmChat ==
    /\ llm.pc = "loop"
    /\ \E response_text \in LlmResponses(llm.function) :
          llm' = LlmLoopBody(llm, response_text)
    /\ UNCHANGED <<conv, parser, evaluator, ssim, adaptive, extractor, aligner,
                   workflow, enhancer>>

LlmNext == LlmInvoke \/ LlmChat

SpecLlm == LlmInit /\ [][LlmNext]_vars

\* The responses of the invocation that hold both tags.
LlmTagged ==
    { n \in 1..Len(llm.responses) :
        /\ Contains(llm.responses[n], StartTag(llm.function))
        /\ Contains(llm.responses[n], EndTag(llm.function)) }

LlmRaisedValueError ==
    llm.pc = "raised" /\ llm.error \in {"ValueError", "ValidationError"}

\* C29: _fix_punctuation and _generate_topics ask the language model at most
\* 5 times; they stop at the first response that holds both tags and use it,
\* and they raise ValueError, returning nothing, exactly when none of 5
\* responses holds both tags.
C29_RetryUntilTagged ==
    llm.pc \in {"loop", "returned", "raised"}
        => /\ Len(llm.responses) <= Tries
           /\ llm.i = Len(llm.responses)
           /\ llm.pc = "returned"
                => /\ LlmTagged = {Len(llm.responses)}
                   /\ "error" \notin DOMAIN llm
           /\ llm.pc = "loop" => LlmTagged = {}
           /\ (llm.pc # "loop" /\ LlmTagged # {}) => llm.pc = "returned"
           /\ LlmRaisedValueError
                <=> (llm.pc # "loop" /\ Len(llm.responses) = Tries /\ LlmTagged = {})

\* Supporting C29: the claim as it holds of _fix_punctuation, and of
\* _generate_topics up to the end of its loop: at most 5 responses, the loop
\* ends at the first one that holds both tags, and the ValueError of the
\* loop is raised exactly when none of 5 does.
C29_LoopStopsAtFirstTagged ==
    llm.pc \in {"loop", "returned", "raised"}
        => /\ Len(llm.responses) <= Tries
           /\ llm.pc = "loop" => LlmTagged = {}
           /\ llm.pc # "loop" /\ LlmTagged # {} => LlmTagged = {Len(llm.responses)}
           /\ (llm.pc = "raised" /\ llm.error = "ValueError")
                <=> (llm.pc # "loop" /\ Len(llm.responses) = Tries /\ LlmTagged = {})
           /\ llm.function = "_fix_punctuation"
                => (llm.pc = "returned" <=> LlmTagged # {})

=============================================================================
